---------------------------- MODULE Spec2Model ----------------------------
(***************************************************************************)
(* Subscription state reconciliation of the journaling application: the    *)
(* edge functions revenuecat-webhook, verify-subscription and              *)
(* create-checkout-session, the profile rows they write and the billing    *)
(* provider they call.                                                     *)
(*                                                                         *)
(* A request is a message in flight: it arrives (Arrive...), the handler   *)
(* runs to its response in one step (Handle...), and the response is       *)
(* delivered (Deliver).  req and resp hold the request and the response of *)
(* the invocation in progress, so a property of one invocation reads the   *)
(* request, the response and the profile rows before and after it.         *)
(***************************************************************************)
EXTENDS Integers, Sequences, FiniteSets, TLC

VARIABLES
    profiles,   \* public.profiles: user_id -> row
    sessions,   \* the checkout sessions created at the provider, oldest first
    customers,  \* the customer records created at the provider (their ids)
    req,        \* <<>> or <<the request being handled>>
    resp,       \* <<>> or <<the response and the call log of that request>>
    hist,       \* history: the events applied so far (see SpecReplay, SpecArrival)
    flight      \* the two invocations that run concurrently (see SpecRace)

vars == <<profiles, sessions, customers, req, resp, hist, flight>>

----------------------------------------------------------------------------
(* Bounds of the model *)

\* Expiry instants are the seconds 1..MaxInstant after the epoch.
MaxInstant == 2

\* Checkout sessions and customers created at the provider.
MaxSessions == 2
MaxCustomers == 2

----------------------------------------------------------------------------
(* Values *)

\* JavaScript undefined / null, SQL NULL, for string-valued fields.
Null == "<null>"

\* Users with a profile row; Ghost is a user id without a row.
Users == {"u1", "u2"}
Ghost == "u0"

\* new Date(seconds * 1000): a Date counts milliseconds
MsPerSecond == 1000
Seconds == 1..MaxInstant
At(seconds) == seconds * MsPerSecond
Instants == {At(k) : k \in Seconds}

\* A date string as it travels in JSON.  kind: "absent" (no field), "empty"
\* (the string ""), "iso" (the form toISOString produces), "offset" (the same
\* instant written with a +00:00 offset and no milliseconds), "invalid" (not a
\* date).  t is the instant it denotes in milliseconds, 0 when it denotes none.
DateStr(kind, t) == [kind |-> kind, t |-> t]
NoDate == DateStr("absent", 0)
DateStrings ==
    {NoDate, DateStr("empty", 0), DateStr("invalid", 0), DateStr("offset", At(1))}
        \cup {DateStr("iso", t) : t \in Instants}

\* A timestamptz column: SQL NULL or an instant.
SqlNull == 0

\* Characters of the product identifiers.
yearly == <<"y", "e", "a", "r", "l", "y">>
annual == <<"a", "n", "n", "u", "a", "l">>
monthly_premium ==
    <<"m", "o", "n", "t", "h", "l", "y", "_", "p", "r", "e", "m", "i", "u", "m">>
yearly_premium ==
    <<"y", "e", "a", "r", "l", "y", "_", "p", "r", "e", "m", "i", "u", "m">>
premium_annual ==
    <<"p", "r", "e", "m", "i", "u", "m", "_", "a", "n", "n", "u", "a", "l">>
YEARLY_PRO == <<"Y", "E", "A", "R", "L", "Y", "_", "P", "R", "O">>

\* product_id of an event: <<>> when the field is missing, <<id>> otherwise.
ProductFields ==
    {<<>>, <<monthly_premium>>, <<yearly_premium>>, <<premium_annual>>, <<YEARLY_PRO>>}

PurchaseTypes == {"INITIAL_PURCHASE", "RENEWAL", "RESTORE", "NON_RENEWING_PURCHASE"}
TerminationTypes == {"CANCELLATION", "EXPIRATION", "BILLING_ISSUE"}
RecognizedTypes == PurchaseTypes \cup TerminationTypes
\* TRANSFER stands for the types the switch does not name; Null for no type.
EventTypes == RecognizedTypes \cup {"TRANSFER", Null}

----------------------------------------------------------------------------
(* Environment variables of the deployment (Deno.env.get at module load) *)

REVENUECAT_SECRET_API_KEY == "rc_secret"
SUPABASE_URL == "https://project.supabase.co"
SUPABASE_SERVICE_ROLE_KEY == "service_role"
STRIPE_SECRET_KEY == "sk_secret"
STRIPE_PRICE_ID_MONTHLY == "price_monthly"
STRIPE_PRICE_ID_YEARLY == "price_yearly"

----------------------------------------------------------------------------
(* JavaScript primitives the handlers use *)

\* String.prototype.includes
Includes(s, sub) ==
    \E i \in 1..(Len(s) - Len(sub) + 1) : SubSeq(s, i, i + Len(sub) - 1) = sub

\* a JavaScript truthiness test of a date-string field
Truthy(d) == d.kind \notin {"absent", "empty"}

\* new Date(s).getTime(): the instant, or NaN (-1) for an invalid date
NaN == -1
ParseDate(d) == IF d.kind \in {"iso", "offset"} THEN d.t ELSE NaN

\* Date.prototype.toISOString throws a RangeError on an invalid date
ToISOThrows(ms) == ms = NaN
toISOString(ms) == DateStr("iso", ms)

\* the timestamptz value the database stores for an ISO string or null
Stored(d) == IF d.kind = "iso" THEN d.t ELSE SqlNull

----------------------------------------------------------------------------
(* 4.1 Signature Verifier *)

\* HMAC-SHA256 as a perfect MAC: the tag determines the message and the key.
Hmac(payload, key) == [payload |-> payload, key |-> key]

\* b.toString(16).padStart(2, '0') joined: lower-case hex of the tag
HexLower(tag) == [tag |-> tag, upper |-> FALSE]

\* verifySignature(payload, signature, secretKey); fails says that importKey
\* or sign threw, which the catch turns into false.
verifySignatureAnyCase(payload, signature, secretKey, fails) ==
    IF fails THEN FALSE
    ELSE Hmac(payload, secretKey) = signature.tag
verifySignature(payload, signature, secretKey, fails) ==
    IF fails THEN FALSE
    ELSE HexLower(Hmac(payload, secretKey)) = signature


----------------------------------------------------------------------------
(* Profile rows *)

\* updated_at is kept relative to the invocation in progress: Earlier is any
\* time before it started, ThisRequest is the new Date() it took.  Deliver
\* lets time pass and turns every ThisRequest into Earlier.
Earlier == "earlier"
ThisRequest == "this-request"

\* handle_new_user: the row a signup inserts
NewProfile ==
    [subscription_status |-> "free",
     subscription_tier |-> "free",
     subscription_expires_at |-> SqlNull,
     revenuecat_user_id |-> Null,
     updated_at |-> Earlier]

\* An upsert: a user id without a row gets one.
UpdateOrInsert(rows, userId, fields) ==
    [u \in DOMAIN rows \cup {userId} |->
        IF u = userId
        THEN [c \in DOMAIN NewProfile |->
                IF c \in DOMAIN fields THEN fields[c]
                ELSE IF u \in DOMAIN rows THEN rows[u][c] ELSE NewProfile[c]]
        ELSE rows[u]]
\* An update that guards on the expiry: a write carrying an earlier expiry than
\* the row holds is dropped as stale.
UpdateUnlessStale(rows, userId, fields) ==
    [u \in DOMAIN rows |->
        IF /\ u = userId
           /\ ~ ( /\ "subscription_expires_at" \in DOMAIN fields
                  /\ fields.subscription_expires_at < rows[u].subscription_expires_at )
        THEN [c \in DOMAIN rows[u] |->
                IF c \in DOMAIN fields THEN fields[c] ELSE rows[u][c]]
        ELSE rows[u]]

\* An update that stacks periods: a premium row that is told premium again has
\* the new period added to the expiry it already holds.
UpdateStacking(rows, userId, fields) ==
    [u \in DOMAIN rows |->
        IF u = userId
        THEN [c \in DOMAIN rows[u] |->
                IF c \notin DOMAIN fields THEN rows[u][c]
                ELSE IF /\ c = "subscription_expires_at"
                        /\ "subscription_status" \in DOMAIN fields
                        /\ fields.subscription_status = "premium"
                        /\ rows[u].subscription_status = "premium"
                     THEN rows[u][c] + fields[c]
                     ELSE fields[c]]
        ELSE rows[u]]

\* supabase.from('profiles').update(fields).eq('user_id', userId): the rows
\* with that user id get the named columns; no row, no change and no error.
Update(rows, userId, fields) ==
    [u \in DOMAIN rows |->
        IF u = userId
        THEN [c \in DOMAIN rows[u] |->
                IF c \in DOMAIN fields THEN fields[c] ELSE rows[u][c]]
        ELSE rows[u]]

\* the updates of one invocation, in order
RECURSIVE ApplyWrites(_, _)
ApplyWrites(rows, writes) ==
    IF writes = <<>> THEN rows
    ELSE ApplyWrites(Update(rows, Head(writes).userId, Head(writes).fields),
                     Tail(writes))

----------------------------------------------------------------------------
(* Responses *)

corsPreflight == [status |-> 200, body |-> <<>>]
Json(status, body) == [status |-> status, body |-> body]
FailureBare(status, message) == Json(status, [error |-> message])
Failure(status, message) == Json(status, [success |-> FALSE, error |-> message])

\* What one invocation did: its response, the calls it made in order, and the
\* profile updates that took effect.
Outcome(response, log, writes) ==
    [response |-> response, log |-> log, writes |-> writes]

----------------------------------------------------------------------------
(* 4.5 Webhook Event Processor: supabase/functions/revenuecat-webhook *)

\* JSON.parse(body) throws on a body that is no JSON
ParseThrows(body) == body.json = "malformed"

\* the case labels of the switch on event.event.type
PurchaseCaseRenewalsOnly(type) ==
    type \in {"RENEWAL", "RESTORE", "NON_RENEWING_PURCHASE"}
PurchaseCase(type) ==
    type \in {"INITIAL_PURCHASE", "RENEWAL", "RESTORE", "NON_RENEWING_PURCHASE"}

TerminationCaseWithDefault(type) == ~PurchaseCase(type)
TerminationCase(type) == type \in {"CANCELLATION", "EXPIRATION", "BILLING_ISSUE"}

\* the purchase case's tier
TierOfProductYearlyOnly(productId) ==
    IF Includes(productId, yearly) THEN "premium_plus" ELSE "premium"
TierOfProduct(productId) ==
    IF Includes(productId, yearly) \/ Includes(productId, annual)
    THEN "premium_plus" ELSE "premium"

\* event.event.expires_date ? new Date(event.event.expires_date) : null,
\* as milliseconds; SqlNull stands for the null
ExpiresDate(ev) ==
    IF Truthy(ev.expires_date) THEN ParseDate(ev.expires_date) ELSE SqlNull

\* expiresDate?.toISOString() || null, as the column value
ExpiresColumn(ev) ==
    IF ExpiresDate(ev) = SqlNull THEN SqlNull
    ELSE Stored(toISOString(ExpiresDate(ev)))

\* A purchase case that leaves the column for an identifier the event lacks.
PurchaseFieldsClearingCustomer(ev) ==
    [subscription_status |-> "premium",
     subscription_tier |-> TierOfProduct(ev.product_id[1]),
     subscription_expires_at |-> ExpiresColumn(ev),
     revenuecat_user_id |-> Null,
     updated_at |-> ThisRequest]
PurchaseFields(ev) ==
    [subscription_status |-> "premium",
     subscription_tier |-> TierOfProduct(ev.product_id[1]),
     subscription_expires_at |-> ExpiresColumn(ev),
     revenuecat_user_id |-> ev.app_user_id,
     updated_at |-> ThisRequest]

\* A termination case that takes an expired subscription back to free.
TerminationFieldsDowngrading(ev) ==
    [subscription_status |->
        IF ev.type = "CANCELLATION" THEN "cancelled" ELSE "free",
     subscription_tier |-> "free",
     subscription_expires_at |-> ExpiresColumn(ev),
     updated_at |-> ThisRequest]
\* A termination case that writes the identifier as the purchase case does.
TerminationFieldsWithIdentifier(ev) ==
    [subscription_status |->
        IF ev.type = "CANCELLATION" THEN "cancelled" ELSE "expired",
     subscription_expires_at |-> ExpiresColumn(ev),
     revenuecat_user_id |-> ev.app_user_id,
     updated_at |-> ThisRequest]
TerminationFieldsKeepExpiry(ev) ==
    [subscription_status |->
        IF ev.type = "CANCELLATION" THEN "cancelled" ELSE "expired",
     updated_at |-> ThisRequest]
TerminationFields(ev) ==
    [subscription_status |->
        IF ev.type = "CANCELLATION" THEN "cancelled" ELSE "expired",
     subscription_expires_at |-> ExpiresColumn(ev),
     updated_at |-> ThisRequest]

WebhookReceived == Json(200, [success |-> TRUE, received |-> TRUE])

\* the update of a recognized event, then the success response; a throw on
\* the way is answered by the catch with status 500 and the error's message
WebhookApplyLoggingOnly(ev, fields, dbError, log) ==
    IF dbError
    THEN Outcome(WebhookReceived, log \o <<"profiles.update:error">>, <<>>)
    ELSE Outcome(WebhookReceived, log \o <<"profiles.update">>,
                 <<[userId |-> ev.app_user_id, fields |-> fields]>>)
WebhookApply(ev, fields, dbError, log) ==
    IF dbError
    THEN Outcome(Failure(500, "Failed to update user profile"),
                 log \o <<"profiles.update:error">>, <<>>)
    ELSE Outcome(WebhookReceived, log \o <<"profiles.update">>,
                 <<[userId |-> ev.app_user_id, fields |-> fields]>>)

WebhookSwitch(ev, dbError, log) ==
    IF PurchaseCase(ev.type)
    THEN IF ev.product_id = <<>>
         THEN Outcome(Failure(500, "TypeError: productId is undefined"), log, <<>>)
         ELSE IF ExpiresDate(ev) # SqlNull /\ ToISOThrows(ExpiresDate(ev))
         THEN Outcome(Failure(500, "Invalid time value"), log, <<>>)
         ELSE WebhookApply(ev, PurchaseFields(ev), dbError, log)
    ELSE IF TerminationCase(ev.type)
    THEN IF ExpiresDate(ev) # SqlNull /\ ToISOThrows(ExpiresDate(ev))
         THEN Outcome(Failure(500, "Invalid time value"), log, <<>>)
         ELSE WebhookApply(ev, TerminationFields(ev), dbError, log)
    ELSE Outcome(WebhookReceived, log, <<>>)

\* lines 55-93: the X-Signature header must be there and must verify
SignatureCheckPresenceOnly(r) ==
    IF r.signature = <<>> THEN "missing" ELSE "verified"
SignatureCheck(r) ==
    IF r.signature = <<>> THEN "missing"
    ELSE IF verifySignature(r.body, r.signature[1], REVENUECAT_SECRET_API_KEY,
                            r.cryptoError)
    THEN "verified" ELSE "invalid"

\* Deno.serve handler of revenuecat-webhook
WebhookHandler(r) ==
    IF r.method = "OPTIONS" THEN Outcome(corsPreflight, <<>>, <<>>)
    ELSE IF Null \in {REVENUECAT_SECRET_API_KEY, SUPABASE_URL, SUPABASE_SERVICE_ROLE_KEY}
    THEN Outcome(Failure(500, "Missing required environment variables"), <<>>, <<>>)
    ELSE IF r.method # "POST"
    THEN Outcome(Failure(405, "Method not allowed. Use POST."), <<>>, <<>>)
    ELSE IF SignatureCheck(r) = "missing"
    THEN Outcome(Failure(400, "Missing RevenueCat signature"), <<>>, <<>>)
    ELSE IF SignatureCheck(r) = "invalid"
    THEN Outcome(Failure(400, "Webhook signature verification failed"),
                 <<"verifySignature:false">>, <<>>)
    ELSE IF ParseThrows(r.body)
    THEN Outcome(Failure(500, "SyntaxError: Unexpected token"),
                 <<"verifySignature:true", "JSON.parse:throws">>, <<>>)
    ELSE IF r.body.json = "noevent"
    THEN Outcome(Failure(500, "TypeError: event.event is undefined"),
                 <<"verifySignature:true", "JSON.parse">>, <<>>)
    ELSE WebhookSwitch(r.body.event, r.dbError,
                       <<"verifySignature:true", "JSON.parse">>)

----------------------------------------------------------------------------
(* Requests to the webhook receiver *)

Event(type, userId, product, expires) ==
    [type |-> type, app_user_id |-> userId, product_id |-> product,
     expires_date |-> expires]

\* A raw body: JSON text of an event ("event"), JSON without an event member
\* ("noevent") or no JSON at all ("malformed").  respaced tells two texts of
\* the same JSON value apart (the bytes differ, the parsed value does not).
RawBody(json, ev, respaced) == [json |-> json, event |-> ev, respaced |-> respaced]
NoEvent == Event(Null, Null, <<>>, NoDate)
EventBody(ev) == RawBody("event", ev, FALSE)

\* Purchase events carry every product field and date string; termination
\* events and events of other types every date string; Ghost is addressed by
\* one event of each kind.
Events ==
    {Event(ty, u, p, d) :
        ty \in PurchaseTypes, u \in Users, p \in ProductFields, d \in DateStrings}
    \cup {Event(ty, u, p, d) :
        ty \in TerminationTypes, u \in Users,
        p \in {<<>>, <<yearly_premium>>}, d \in DateStrings}
    \cup {Event(ty, u, <<monthly_premium>>, d) :
        ty \in {"TRANSFER", Null}, u \in Users, d \in DateStrings}
    \cup {Event(ty, Ghost, <<yearly_premium>>, DateStr("iso", At(1))) :
        ty \in {"INITIAL_PURCHASE", "CANCELLATION", "TRANSFER"}}

\* Events whose profile update the database refuses.
RefusedEvents ==
    {Event(ty, u, <<yearly_premium>>, DateStr("iso", At(1))) :
        ty \in RecognizedTypes \cup {"TRANSFER"}, u \in Users}

\* The X-Signature header of a sender who holds the secret.
SignatureOf(body) == <<HexLower(Hmac(body, REVENUECAT_SECRET_API_KEY))>>

\* Headers that must not verify for body: none, a tag under another key, the
\* tag of the same JSON value in other bytes, the right tag in upper-case hex.
BadSignatures(body) ==
    {<<>>,
     <<HexLower(Hmac(body, "other_secret"))>>,
     <<HexLower(Hmac([body EXCEPT !.respaced = TRUE], REVENUECAT_SECRET_API_KEY))>>,
     <<[tag |-> Hmac(body, REVENUECAT_SECRET_API_KEY), upper |-> TRUE]>>}

WebhookRequest(method, signature, body, cryptoError, dbError) ==
    [fn |-> "revenuecat-webhook", method |-> method, signature |-> signature,
     body |-> body, cryptoError |-> cryptoError, dbError |-> dbError]

\* Events sent by the billing provider, with or without a database failure.
SignedRequests ==
    {WebhookRequest("POST", SignatureOf(EventBody(ev)), EventBody(ev), FALSE, FALSE) :
        ev \in Events}
        \cup {WebhookRequest("POST", SignatureOf(EventBody(ev)), EventBody(ev),
                             FALSE, TRUE) : ev \in RefusedEvents}
        \cup {WebhookRequest("POST", SignatureOf(b), b, FALSE, FALSE) :
                b \in {RawBody("malformed", NoEvent, FALSE),
                       RawBody("noevent", NoEvent, FALSE)}}

\* Events whose signature is missing or wrong, or cannot be computed.
ForgedEvents ==
    {Event(ty, u, <<yearly_premium>>, DateStr("iso", At(1))) :
        ty \in {"INITIAL_PURCHASE", "CANCELLATION", "TRANSFER"}, u \in Users}
UnsignedRequests ==
    UNION {{WebhookRequest("POST", sig, EventBody(ev), FALSE, FALSE) :
                sig \in BadSignatures(EventBody(ev))} : ev \in ForgedEvents}
        \cup {WebhookRequest("POST", SignatureOf(EventBody(ev)), EventBody(ev),
                             TRUE, FALSE) : ev \in ForgedEvents}

OtherMethodRequests ==
    {WebhookRequest(m, SignatureOf(EventBody(ev)), EventBody(ev), FALSE, FALSE) :
        m \in {"OPTIONS", "GET"}, ev \in ForgedEvents}

WebhookRequests == SignedRequests \cup UnsignedRequests \cup OtherMethodRequests

----------------------------------------------------------------------------
(* 4.4 Subscription Verifier: supabase/functions/verify-subscription *)

\* What the provider answers to the two retrieves of one invocation is an
\* input of that invocation: the account's sessions are not only those this
\* deployment created, and a payment progresses outside the program.
\*   session: "throws" (no such session, provider unreachable), "null", or
\*   "found" with payment_status, status, the user id in its metadata and
\*   subscription: <<>> or <<the subscription the second retrieve returns>>.
\*   A subscription has retrieve ("ok" or "throws"), the price id of its
\*   first item and current_period_end in seconds (0: not a number).
Subscription(retrieve, price, periodEnd) ==
    [retrieve |-> retrieve, price |-> price, current_period_end |-> periodEnd]

Session(kind, paymentStatus, status, userId, subscription) ==
    [kind |-> kind, payment_status |-> paymentStatus, status |-> status,
     metadata |-> [userId |-> userId], subscription |-> subscription]

\* line 122: neither paid nor complete
PaymentNotCompletedOpenOnly(session) == session.status = "open"
PaymentNotCompleted(session) ==
    session.payment_status # "paid" /\ session.status # "complete"

\* lines 160-162
TierOfPriceOneTier(priceId) == "premium"
TierOfPrice(priceId) ==
    IF priceId = STRIPE_PRICE_ID_MONTHLY THEN "premium" ELSE "premium_plus"

\* new Date(subscription.current_period_end * 1000), as milliseconds
PeriodEndDateNoScale(sub) ==
    IF sub.current_period_end = 0 THEN NaN ELSE sub.current_period_end
PeriodEndDate(sub) ==
    IF sub.current_period_end = 0 THEN NaN
    ELSE sub.current_period_end * MsPerSecond

\* An update that sets the status and leaves the tier as it was.
VerifyFieldsStatusOnly(sub) ==
    [subscription_status |-> "premium",
     subscription_expires_at |-> Stored(toISOString(PeriodEndDate(sub))),
     updated_at |-> ThisRequest]
VerifyFields(sub) ==
    [subscription_status |-> "premium",
     subscription_tier |-> TierOfPrice(sub.price),
     subscription_expires_at |-> Stored(toISOString(PeriodEndDate(sub))),
     updated_at |-> ThisRequest]

\* lines 193-207; JSON carries the date as the string toISOString gives
VerifySuccess(sub) ==
    Json(200, [success |-> TRUE,
               subscription_status |-> "premium",
               subscription_tier |-> TierOfPrice(sub.price),
               subscription_expires_at |-> toISOString(PeriodEndDate(sub))])

VerifyFailed == Failure(500, "Failed to verify subscription status")

\* lines 157-207: retrieve the subscription, update the profile, answer
VerifyApply(r, sub, log) ==
    IF sub.retrieve = "throws"
    THEN Outcome(VerifyFailed, log \o <<"subscriptions.retrieve:throws">>, <<>>)
    ELSE IF sub.price = Null \/ ToISOThrows(PeriodEndDate(sub))
    THEN Outcome(VerifyFailed, log \o <<"subscriptions.retrieve">>, <<>>)
    ELSE IF r.dbError
    THEN Outcome(Failure(500, "Failed to update user profile with subscription info"),
                 log \o <<"subscriptions.retrieve", "profiles.update:error">>, <<>>)
    ELSE Outcome(VerifySuccess(sub),
                 log \o <<"subscriptions.retrieve", "profiles.update">>,
                 <<[userId |-> r.userId, fields |-> VerifyFields(sub)]>>)

\* An inner try that reports a completed session without a subscription as a
\* payment that is not completed.
VerifySessionLenient(r) ==
    LET session == r.stripe
    IN IF session.kind = "throws"
       THEN Outcome(VerifyFailed, <<"sessions.retrieve:throws">>, <<>>)
       ELSE IF session.kind = "null"
       THEN Outcome(Failure(400, "Invalid session ID"), <<"sessions.retrieve">>, <<>>)
       ELSE IF PaymentNotCompleted(session) \/ session.subscription = <<>>
       THEN Outcome(Json(200, [success |-> FALSE,
                               error |-> "Payment not completed",
                               session_status |-> session.status,
                               payment_status |-> session.payment_status]),
                    <<"sessions.retrieve">>, <<>>)
       ELSE VerifyApply(r, session.subscription[1], <<"sessions.retrieve">>)
\* lines 101-224: the inner try
VerifySession(r) ==
    LET session == r.stripe
    IN IF session.kind = "throws"
       THEN Outcome(VerifyFailed, <<"sessions.retrieve:throws">>, <<>>)
       ELSE IF session.kind = "null"
       THEN Outcome(Failure(400, "Invalid session ID"), <<"sessions.retrieve">>, <<>>)
       ELSE IF PaymentNotCompleted(session)
       THEN Outcome(Json(200, [success |-> FALSE,
                               error |-> "Payment not completed",
                               session_status |-> session.status,
                               payment_status |-> session.payment_status]),
                    <<"sessions.retrieve">>, <<>>)
       ELSE IF session.subscription = <<>>
       THEN Outcome(Failure(400, "No subscription found in session"),
                    <<"sessions.retrieve">>, <<>>)
       ELSE VerifyApply(r, session.subscription[1], <<"sessions.retrieve">>)

\* Deno.serve handler of verify-subscription
VerifyHandler(r) ==
    IF r.method = "OPTIONS" THEN Outcome(corsPreflight, <<>>, <<>>)
    ELSE IF STRIPE_SECRET_KEY = Null
    THEN Outcome(Failure(500, "Stripe secret key is not configured"), <<>>, <<>>)
    ELSE IF Null \in {SUPABASE_URL, SUPABASE_SERVICE_ROLE_KEY}
    THEN Outcome(Failure(500, "Supabase credentials are not configured"), <<>>, <<>>)
    ELSE IF r.method # "POST"
    THEN Outcome(Failure(405, "Method not allowed. Use POST."), <<>>, <<>>)
    ELSE IF r.body = "malformed"
    THEN Outcome(Failure(500, "An unexpected error occurred"), <<>>, <<>>)
    ELSE IF r.sessionId = Null \/ r.userId = Null
    THEN Outcome(Failure(400, "Session ID and User ID are required"), <<>>, <<>>)
    ELSE VerifySession(r)

----------------------------------------------------------------------------
(* Requests to verify-subscription *)

VerifyRequest(method, body, sessionId, userId, stripe, dbError) ==
    [fn |-> "verify-subscription", method |-> method, body |-> body,
     sessionId |-> sessionId, userId |-> userId, stripe |-> stripe,
     dbError |-> dbError]

PaymentStatuses == {"paid", "unpaid", "no_payment_required"}
SessionStatuses == {"open", "complete", "expired"}
PriceIds == {STRIPE_PRICE_ID_MONTHLY, STRIPE_PRICE_ID_YEARLY, "price_other"}

MonthlyUntil1 == Subscription("ok", STRIPE_PRICE_ID_MONTHLY, 1)

\* Every pair of statuses, with and without a subscription; every price and
\* period end under the statuses of a paid and of a trial checkout; the
\* subscriptions that cannot be read; the sessions that cannot be read.
ProviderAnswers ==
    {Session("found", ps, st, u, sub) :
        ps \in PaymentStatuses, st \in SessionStatuses, u \in Users,
        sub \in {<<>>, <<MonthlyUntil1>>}}
    \cup {Session("found", ps, "complete", u, <<Subscription("ok", p, e)>>) :
        ps \in {"paid", "no_payment_required"}, u \in Users,
        p \in PriceIds, e \in Seconds}
    \cup {Session("found", "paid", "complete", "u1", <<sub>>) :
        sub \in {Subscription("throws", Null, 0),
                 Subscription("ok", Null, 1),
                 Subscription("ok", STRIPE_PRICE_ID_YEARLY, 0)}}
    \cup {Session(k, Null, Null, Null, <<>>) : k \in {"throws", "null"}}

VerifyRequests ==
    {VerifyRequest("POST", "json", "cs_1", u, a, FALSE) :
        u \in Users \cup {Ghost}, a \in ProviderAnswers}
    \cup {VerifyRequest("POST", "json", "cs_1", u,
                        Session("found", "paid", "complete", u, <<MonthlyUntil1>>),
                        TRUE) : u \in Users}
    \cup {VerifyRequest("POST", "json", sid, u,
                        Session("found", "paid", "complete", "u1", <<MonthlyUntil1>>),
                        FALSE) :
            sid \in {"cs_1", Null}, u \in {"u1", Null}}
    \cup {VerifyRequest(m, b, "cs_1", "u1",
                        Session("found", "paid", "complete", "u1", <<MonthlyUntil1>>),
                        FALSE) :
            m \in {"POST", "GET", "OPTIONS"}, b \in {"json", "malformed"}}

----------------------------------------------------------------------------
(* 4.2, 4.3 Checkout Session Manager: supabase/functions/create-checkout-session *)

\* ids the provider gives to the customers and sessions it creates
CustomerIds == <<"cus_1", "cus_2", "cus_3", "cus_4">>
CheckoutSessionIds == <<"cs_1", "cs_2", "cs_3", "cs_4">>

\* PRICE_IDS, lines 12-15
PRICE_IDS == [MONTHLY |-> STRIPE_PRICE_ID_MONTHLY, YEARLY |-> STRIPE_PRICE_ID_YEARLY]

\* lines 35-51
MissingVars ==
    {v \in {STRIPE_SECRET_KEY, SUPABASE_URL, SUPABASE_SERVICE_ROLE_KEY,
            PRICE_IDS.MONTHLY, PRICE_IDS.YEARLY} : v = Null}

\* line 108
InvalidPriceIdUnchecked(priceId) == FALSE
InvalidPriceId(priceId) ==
    priceId # PRICE_IDS.MONTHLY /\ priceId # PRICE_IDS.YEARLY

\* What one invocation did besides answering: the provider customers and
\* sessions after it.
CheckoutOutcome(response, log, writes, custs, sess) ==
    [response |-> response, log |-> log, writes |-> writes,
     customers |-> custs, sessions |-> sess]

\* lines 218-281: create the session for customerId
CheckoutCreateSession(r, customerId, log, writes, custs, sess) ==
    IF r.sessionError
    THEN CheckoutOutcome(Failure(500, r.providerMessage),
                         log \o <<"sessions.create:throws">>, writes, custs, sess)
    ELSE LET id == CheckoutSessionIds[Len(sess) + 1]
         IN CheckoutOutcome(
                Json(200, [success |-> TRUE, url |-> <<"checkout", id>>,
                           session_id |-> id]),
                log \o <<"sessions.create">>, writes, custs,
                Append(sess, [id |-> id, customer |-> customerId,
                              price |-> r.priceId,
                              metadata |-> [userId |-> r.userId]]))

\* A resolver that starts the new customer's profile over as free.
CheckoutCreateCustomerResettingStatus(r, log, custs, sess) ==
    IF r.createError
    THEN CheckoutOutcome(Failure(500, "Failed to create Stripe customer"),
                         log \o <<"customers.create:throws">>, <<>>, custs, sess)
    ELSE LET id == CustomerIds[Cardinality(custs) + 1]
         IN CheckoutCreateSession(r, id,
                log \o <<"customers.create", "profiles.update">>,
                <<[userId |-> r.userId,
                   fields |-> [revenuecat_user_id |-> id,
                               subscription_status |-> "free"]]>>,
                custs \cup {id}, sess)

\* lines 174-216: create a customer and store its id in the profile
CheckoutCreateCustomer(r, log, custs, sess) ==
    IF r.createError
    THEN CheckoutOutcome(Failure(500, "Failed to create Stripe customer"),
                         log \o <<"customers.create:throws">>, <<>>, custs, sess)
    ELSE LET id == CustomerIds[Cardinality(custs) + 1]
         IN IF r.updateError
            THEN CheckoutCreateSession(r, id,
                    log \o <<"customers.create", "profiles.update:error">>,
                    <<>>, custs \cup {id}, sess)
            ELSE CheckoutCreateSession(r, id,
                    log \o <<"customers.create", "profiles.update">>,
                    <<[userId |-> r.userId,
                       fields |-> [revenuecat_user_id |-> id]]>>,
                    custs \cup {id}, sess)

\* A resolver that goes on with the stored id whatever the provider says of it.
CheckoutResolveCustomerTrustingStored(r, rows, custs, sess) ==
    IF r.profileError
    THEN CheckoutOutcome(Failure(500, "Failed to fetch user profile from database"),
                         <<"profiles.select:error">>, <<>>, custs, sess)
    ELSE LET customerId == IF r.userId \in DOMAIN rows
                           THEN rows[r.userId].revenuecat_user_id ELSE Null
         IN IF customerId = Null
            THEN CheckoutCreateCustomer(r, <<"profiles.select">>, custs, sess)
            ELSE CheckoutCreateSession(r, customerId,
                    <<"profiles.select",
                      IF customerId \in custs /\ ~r.retrieveError
                      THEN "customers.retrieve" ELSE "customers.retrieve:throws">>,
                    <<>>, custs, sess)

\* lines 133-216: the customer id of the profile, if the provider knows it
CheckoutResolveCustomer(r, rows, custs, sess) ==
    IF r.profileError
    THEN CheckoutOutcome(Failure(500, "Failed to fetch user profile from database"),
                         <<"profiles.select:error">>, <<>>, custs, sess)
    ELSE LET customerId == IF r.userId \in DOMAIN rows
                           THEN rows[r.userId].revenuecat_user_id ELSE Null
         IN IF customerId = Null
            THEN CheckoutCreateCustomer(r, <<"profiles.select">>, custs, sess)
            ELSE IF customerId \in custs /\ ~r.retrieveError
            THEN CheckoutCreateSession(r, customerId,
                    <<"profiles.select", "customers.retrieve">>, <<>>, custs, sess)
            ELSE CheckoutCreateCustomer(r,
                    <<"profiles.select", "customers.retrieve:throws">>, custs, sess)

\* Deno.serve handler of create-checkout-session
CheckoutHandler(r, rows, custs, sess) ==
    IF r.method = "OPTIONS" THEN CheckoutOutcome(corsPreflight, <<>>, <<>>, custs, sess)
    ELSE IF MissingVars # {}
    THEN CheckoutOutcome(Failure(500, "Missing required environment variables"),
                         <<>>, <<>>, custs, sess)
    ELSE IF r.method # "POST"
    THEN CheckoutOutcome(Failure(405, "Method not allowed. Use POST."),
                         <<>>, <<>>, custs, sess)
    ELSE IF r.body = "malformed"
    THEN CheckoutOutcome(Failure(500, "SyntaxError: Unexpected token"),
                         <<>>, <<>>, custs, sess)
    ELSE IF r.priceId = Null \/ r.userId = Null \/ r.email = Null
    THEN CheckoutOutcome(
            Failure(400, "Missing required fields: priceId, userId, and email are required"),
            <<>>, <<>>, custs, sess)
    ELSE IF InvalidPriceId(r.priceId)
    THEN CheckoutOutcome(Failure(400, <<"Invalid price ID", r.priceId>>),
                         <<>>, <<>>, custs, sess)
    ELSE CheckoutResolveCustomer(r, rows, custs, sess)

----------------------------------------------------------------------------
(* Requests to create-checkout-session *)

\* failures: the calls of this invocation that fail (a subset of
\* {"select", "retrieve", "create", "update", "session"})
CheckoutRequest(method, body, priceId, userId, email, failures, message) ==
    [fn |-> "create-checkout-session", method |-> method, body |-> body,
     priceId |-> priceId, userId |-> userId, email |-> email,
     profileError |-> "select" \in failures,
     retrieveError |-> "retrieve" \in failures,
     createError |-> "create" \in failures,
     updateError |-> "update" \in failures,
     sessionError |-> "session" \in failures,
     providerMessage |-> message]

\* no call fails, or one does
CallFailures == {{}} \cup {{c} : c \in {"select", "retrieve", "create", "update", "session"}}

CheckoutRequests ==
    {CheckoutRequest("POST", "json", p, u, e, f, "No such price") :
        p \in PriceIds \cup {Null}, u \in Users \cup {Ghost, Null},
        e \in {"user@example.com", Null}, f \in CallFailures}
    \cup {CheckoutRequest(m, b, p, "u1", "user@example.com", {}, "No such price") :
        m \in {"POST", "GET", "OPTIONS"}, b \in {"json", "malformed"},
        p \in {PRICE_IDS.YEARLY, "price_other"}}

----------------------------------------------------------------------------
(* 4.2 Customer Resolver on signup: supabase/functions/create-stripe-customer *)

\* lines 91-127: create the customer, store its id, answer
CustomerCreate(r, log, custs, sess) ==
    IF r.createError
    THEN CheckoutOutcome(Failure(500, r.providerMessage),
                         log \o <<"customers.create:throws">>, <<>>, custs, sess)
    ELSE LET id == CustomerIds[Cardinality(custs) + 1]
         IN IF r.updateError
            THEN CheckoutOutcome(
                    Failure(500, "Failed to update user profile: <message>"),
                    log \o <<"customers.create", "profiles.update:error">>,
                    <<>>, custs \cup {id}, sess)
            ELSE CheckoutOutcome(
                    Json(200, [success |-> TRUE,
                               message |-> "Stripe customer created and linked to user profile",
                               customerId |-> id]),
                    log \o <<"customers.create", "profiles.update">>,
                    <<[userId |-> r.record.id,
                       fields |-> [revenuecat_user_id |-> id]]>>,
                    custs \cup {id}, sess)

\* Deno.serve handler of create-stripe-customer; it looks at no method but
\* OPTIONS, and takes a stored id as it is, without asking the provider.
CustomerHandler(r, rows, custs, sess) ==
    IF r.method = "OPTIONS" THEN CheckoutOutcome(corsPreflight, <<>>, <<>>, custs, sess)
    ELSE IF STRIPE_SECRET_KEY = Null
    THEN CheckoutOutcome(Failure(500, "STRIPE_SECRET_KEY is not configured"),
                         <<>>, <<>>, custs, sess)
    ELSE IF Null \in {SUPABASE_URL, SUPABASE_SERVICE_ROLE_KEY}
    THEN CheckoutOutcome(Failure(500, "Supabase credentials are not configured"),
                         <<>>, <<>>, custs, sess)
    ELSE IF r.body = "malformed"
    THEN CheckoutOutcome(Failure(500, "SyntaxError: Unexpected token"),
                         <<>>, <<>>, custs, sess)
    ELSE IF r.record = <<>> \/ r.record[1].id = Null \/ r.record[1].email = Null
    THEN CheckoutOutcome(Failure(400, "Invalid webhook payload. Missing user data."),
                         <<>>, <<>>, custs, sess)
    ELSE IF r.profileError
    THEN CheckoutOutcome(Failure(500, "Failed to fetch user profile: <message>"),
                         <<"profiles.select:error">>, <<>>, custs, sess)
    ELSE LET record == r.record[1]
             stored == IF record.id \in DOMAIN rows
                       THEN rows[record.id].revenuecat_user_id ELSE Null
         IN IF stored # Null
            THEN CheckoutOutcome(
                    Json(200, [success |-> TRUE,
                               message |-> "User already has a Stripe customer ID",
                               customerId |-> stored]),
                    <<"profiles.select">>, <<>>, custs, sess)
            ELSE CustomerCreate([r EXCEPT !.record = record],
                                <<"profiles.select">>, custs, sess)

----------------------------------------------------------------------------
(* Requests to create-stripe-customer: the database webhook on auth.users *)

CustomerRequest(method, body, record, failures) ==
    [fn |-> "create-stripe-customer", method |-> method, body |-> body,
     record |-> record,
     profileError |-> "select" \in failures,
     createError |-> "create" \in failures,
     updateError |-> "update" \in failures,
     providerMessage |-> "Invalid API Key provided"]

AuthUser(id, email) == [id |-> id, email |-> email]

CustomerRequests ==
    {CustomerRequest("POST", "json", <<AuthUser(u, "user@example.com")>>, f) :
        u \in Users \cup {Ghost},
        f \in {{}, {"select"}, {"create"}, {"update"}}}
    \cup {CustomerRequest("POST", "json", rec, {}) :
            rec \in {<<>>, <<AuthUser(Null, "user@example.com")>>,
                     <<AuthUser("u1", Null)>>}}
    \cup {CustomerRequest(m, b, <<AuthUser("u1", "user@example.com")>>, {}) :
            m \in {"POST", "PUT", "OPTIONS"}, b \in {"json", "malformed"}}

----------------------------------------------------------------------------
(* 4.6 Portal Redirector: supabase/functions/create-portal-session *)

\* line 125: const customerId = profile?.revenuecat_user_id
PortalCustomerOrUser(r, rows) ==
    IF rows[r.userId].revenuecat_user_id = Null THEN r.userId
    ELSE rows[r.userId].revenuecat_user_id
PortalCustomer(r, rows) == rows[r.userId].revenuecat_user_id

\* Deno.serve handler of create-portal-session: it reads one profile and asks
\* the provider for a portal session; .single() on no row is an error.
PortalHandler(r, rows, custs) ==
    IF r.method = "OPTIONS" THEN Outcome(corsPreflight, <<>>, <<>>)
    ELSE IF STRIPE_SECRET_KEY = Null
    THEN Outcome(Failure(500, "Stripe secret key is not configured"), <<>>, <<>>)
    ELSE IF Null \in {SUPABASE_URL, SUPABASE_SERVICE_ROLE_KEY}
    THEN Outcome(Failure(500, "Supabase credentials are not configured"), <<>>, <<>>)
    ELSE IF r.method # "POST"
    THEN Outcome(Failure(405, "Method not allowed. Use POST."), <<>>, <<>>)
    ELSE IF r.body = "malformed"
    THEN Outcome(Failure(500, "An unexpected error occurred"), <<>>, <<>>)
    ELSE IF r.userId = Null
    THEN Outcome(Failure(400, "User ID is required"), <<>>, <<>>)
    ELSE IF r.profileError \/ r.userId \notin DOMAIN rows
    THEN Outcome(Failure(500, "Failed to fetch user profile"),
                 <<"profiles.select:error">>, <<>>)
    ELSE LET customerId == PortalCustomer(r, rows)
         IN IF customerId = Null
            THEN Outcome(Failure(400, "No Stripe customer ID found for this user"),
                         <<"profiles.select">>, <<>>)
            ELSE IF r.portalError \/ customerId \notin custs
            THEN Outcome(Failure(500, "Failed to create customer portal session"),
                         <<"profiles.select", "billingPortal.sessions.create:throws">>,
                         <<>>)
            ELSE Outcome(Json(200, [success |-> TRUE,
                                    url |-> <<"portal", customerId>>]),
                         <<"profiles.select", "billingPortal.sessions.create">>, <<>>)

PortalRequest(method, body, userId, failures) ==
    [fn |-> "create-portal-session", method |-> method, body |-> body,
     userId |-> userId,
     profileError |-> "select" \in failures,
     portalError |-> "portal" \in failures]

PortalRequests ==
    {PortalRequest("POST", "json", u, f) :
        u \in Users \cup {Ghost, Null}, f \in {{}, {"select"}, {"portal"}}}
    \cup {PortalRequest(m, b, "u1", {}) :
            m \in {"POST", "GET", "OPTIONS"}, b \in {"json", "malformed"}}

----------------------------------------------------------------------------
(* The state machine *)

NoHistory == [replay |-> <<>>, arrivals |-> <<>>, journey |-> <<>>]
NoFlight == <<>>

Init ==
    /\ profiles = [u \in Users |-> NewProfile]
    /\ sessions = <<>>
    /\ customers = {}
    /\ req = <<>>
    /\ resp = <<>>
    /\ hist = NoHistory
    /\ flight = NoFlight

Idle == req = <<>>
Pending == req # <<>> /\ resp = <<>>
Done == req # <<>> /\ resp # <<>>

\* A request reaches an edge function.
Arrive(requests) ==
    /\ Idle
    /\ flight = NoFlight
    /\ \E r \in requests : req' = <<r>>
    /\ UNCHANGED <<profiles, sessions, customers, resp, hist, flight>>

ArriveWebhook == Arrive(WebhookRequests)

\* The webhook receiver runs: its one update and its response.
WebhookRuns ==
    /\ Pending
    /\ req[1].fn = "revenuecat-webhook"
    /\ LET out == WebhookHandler(req[1])
       IN /\ profiles' = ApplyWrites(profiles, out.writes)
          /\ resp' = <<[response |-> out.response, log |-> out.log]>>
    /\ UNCHANGED <<sessions, customers, req, flight>>

HandleWebhook ==
    /\ hist.replay = <<>>
    /\ WebhookRuns
    /\ UNCHANGED hist

\* The response is delivered; time passes before the next request.
Deliver ==
    /\ Done
    /\ req' = <<>>
    /\ resp' = <<>>
    /\ profiles' = [u \in DOMAIN profiles |->
                        [profiles[u] EXCEPT !.updated_at = Earlier]]
    /\ UNCHANGED <<sessions, customers, hist, flight>>

ArriveVerify == Arrive(VerifyRequests)

\* The subscription verifier runs.
HandleVerify ==
    /\ Pending
    /\ req[1].fn = "verify-subscription"
    /\ LET out == VerifyHandler(req[1])
       IN /\ profiles' = ApplyWrites(profiles, out.writes)
          /\ resp' = <<[response |-> out.response, log |-> out.log]>>
    /\ UNCHANGED <<sessions, customers, req, hist, flight>>

\* A checkout request arrives while the provider has room for what it creates.
ArriveCheckout ==
    /\ Len(sessions) < MaxSessions
    /\ Cardinality(customers) < MaxCustomers
    /\ Arrive(CheckoutRequests)

\* The checkout session manager runs.
HandleCheckout ==
    /\ Pending
    /\ req[1].fn = "create-checkout-session"
    /\ LET out == CheckoutHandler(req[1], profiles, customers, sessions)
       IN /\ profiles' = ApplyWrites(profiles, out.writes)
          /\ customers' = out.customers
          /\ sessions' = out.sessions
          /\ resp' = <<[response |-> out.response, log |-> out.log]>>
    /\ UNCHANGED <<req, hist, flight>>

----------------------------------------------------------------------------
(* Redelivery: the provider sends one event again and again (SpecReplay) *)

\* How often the event is applied.
MaxReplays == 3

SignedEvent(ev, dbError) ==
    WebhookRequest("POST", SignatureOf(EventBody(ev)), EventBody(ev), FALSE, dbError)

\* The events that bring the profiles into any state before the redelivery.
PreludeEvents ==
    {Event(ty, u, p, d) :
        ty \in RecognizedTypes, u \in Users,
        p \in {<<monthly_premium>>, <<yearly_premium>>},
        d \in {NoDate} \cup {DateStr("iso", t) : t \in Instants}}

ArrivePrelude ==
    /\ hist.replay = <<>>
    /\ Arrive({SignedEvent(ev, FALSE) : ev \in PreludeEvents})

\* The event that is redelivered: an INITIAL_PURCHASE with any product field
\* and date string.
ReplayEvents ==
    {Event("INITIAL_PURCHASE", u, p, d) :
        u \in Users, p \in ProductFields, d \in DateStrings}

\* What the claim compares of a row.
SubscriptionOf(row) ==
    [subscription_status |-> row.subscription_status,
     subscription_tier |-> row.subscription_tier,
     subscription_expires_at |-> row.subscription_expires_at]

StartReplay ==
    /\ Idle
    /\ flight = NoFlight
    /\ hist.replay = <<>>
    /\ \E ev \in ReplayEvents :
          hist' = [hist EXCEPT !.replay = <<[event |-> ev, count |-> 0, first |-> <<>>]>>]
    /\ UNCHANGED <<profiles, sessions, customers, req, resp, flight>>

\* The same event arrives once more; the database may refuse the update.
ArriveReplay ==
    /\ hist.replay # <<>>
    /\ hist.replay[1].count < MaxReplays
    /\ Arrive({SignedEvent(hist.replay[1].event, db) : db \in BOOLEAN})

\* The webhook receiver runs on the redelivered event; the history counts the
\* applications and keeps the subscription fields the first one left.
HandleReplay ==
    /\ hist.replay # <<>>
    /\ WebhookRuns
    /\ LET h == hist.replay[1]
           applied == \E i \in 1..Len(resp'[1].log) : resp'[1].log[i] = "profiles.update"
       IN hist' = [hist EXCEPT !.replay =
                    IF applied
                    THEN <<[event |-> h.event, count |-> h.count + 1,
                            first |-> IF h.count = 0
                                      THEN <<SubscriptionOf(profiles'[h.event.app_user_id])>>
                                      ELSE h.first]>>
                    ELSE hist.replay]

NextReplay ==
    ArrivePrelude \/ HandleWebhook \/ StartReplay \/ ArriveReplay \/ HandleReplay
        \/ Deliver

\* Any events, then one INITIAL_PURCHASE event delivered up to MaxReplays times.
SpecReplay == Init /\ [][NextReplay]_vars

----------------------------------------------------------------------------
(* Arrival order: the receiver's effect on one user, event after event
   (SpecArrival) *)

\* The user whose arrivals the history keeps.
Tracked == "u1"

ArrivalEvents ==
    {Event(ty, Tracked, <<monthly_premium>>, d) :
        ty \in RecognizedTypes \cup {"TRANSFER"},
        d \in {NoDate} \cup {DateStr("iso", t) : t \in Instants}}
    \cup {Event("RENEWAL", Tracked, <<>>, DateStr("iso", At(1))),
          Event("CANCELLATION", Tracked, <<monthly_premium>>, DateStr("invalid", 0)),
          Event("INITIAL_PURCHASE", "u2", <<yearly_premium>>, DateStr("iso", At(1))),
          Event("EXPIRATION", "u2", <<yearly_premium>>, NoDate)}

\* Events of the provider, events the database refuses, and forgeries.
ArrivalRequests ==
    {SignedEvent(ev, FALSE) : ev \in ArrivalEvents}
    \cup {SignedEvent(Event(ty, Tracked, <<monthly_premium>>, DateStr("iso", At(1))), TRUE) :
            ty \in {"RENEWAL", "CANCELLATION"}}
    \cup {WebhookRequest("POST", <<HexLower(Hmac(EventBody(ev), "other_secret"))>>,
                         EventBody(ev), FALSE, FALSE) :
            ev \in {Event(ty, Tracked, <<monthly_premium>>, DateStr("iso", At(1))) :
                        ty \in {"RENEWAL", "CANCELLATION"}}}

ArriveArrival == Arrive(ArrivalRequests)

\* r is a recognized event for the tracked user that the receiver applies: it
\* is signed by the provider, its fields can be evaluated and the database
\* takes the update.
Applies(r) ==
    /\ r.fn = "revenuecat-webhook"
    /\ r.method = "POST"
    /\ r.signature = SignatureOf(r.body)
    /\ ~r.cryptoError
    /\ ~r.dbError
    /\ r.body.json = "event"
    /\ r.body.event.type \in RecognizedTypes
    /\ r.body.event.app_user_id = Tracked
    /\ r.body.event.expires_date.kind # "invalid"
    /\ r.body.event.type \in PurchaseTypes => r.body.event.product_id # <<>>

\* The history keeps the last two applied events: the claim's cases are about
\* an event and the one before it.
LastOf(arrivals) == IF Len(arrivals) <= 2 THEN arrivals ELSE Tail(arrivals)

\* The webhook receiver runs; the history keeps the applied events of the
\* tracked user in arrival order.
HandleArrival ==
    /\ WebhookRuns
    /\ hist' = [hist EXCEPT !.arrivals =
                    IF Applies(req[1])
                    THEN LastOf(Append(hist.arrivals, req[1].body.event))
                    ELSE hist.arrivals]

NextArrival == ArriveArrival \/ HandleArrival \/ Deliver

SpecArrival == Init /\ [][NextArrival]_vars

----------------------------------------------------------------------------
(* §5: the verifier and the webhook receiver run at once for one user
   (SpecRace) *)

\* What the provider's event says of the subscription: any product id, and
\* any date or none (expires_date is optional, lines 10-21).
RaceProducts == {<<monthly_premium>>, <<yearly_premium>>, <<premium_annual>>, <<YEARLY_PRO>>}
RaceDates ==
    {NoDate, DateStr("offset", At(1))} \cup {DateStr("iso", t) : t \in Instants}

\* The browser comes back from a completed checkout (paid, or in its trial)
\* while the provider sends the purchase event: two invocations in flight.
Race(u, ps, price, periodEnd, product, date) ==
    [user |-> u,
     verify |-> VerifyRequest("POST", "json", "cs_1", u,
                    Session("found", ps, "complete", u,
                            <<Subscription("ok", price, periodEnd)>>),
                    FALSE),
     webhook |-> SignedEvent(Event("INITIAL_PURCHASE", u, product, date), FALSE),
     v |-> "pending",
     w |-> "pending"]

StartRace ==
    /\ Idle
    /\ flight = NoFlight
    /\ \E u \in Users, ps \in {"paid", "no_payment_required"},
          price \in {STRIPE_PRICE_ID_MONTHLY, STRIPE_PRICE_ID_YEARLY},
          periodEnd \in Seconds, product \in RaceProducts, date \in RaceDates :
          flight' = <<Race(u, ps, price, periodEnd, product, date)>>
    /\ UNCHANGED <<profiles, sessions, customers, req, resp, hist>>

\* verify-subscription up to its update: the session and the subscription are
\* retrieved (lines 103-162).
RaceVerifyRetrieve ==
    /\ flight # NoFlight
    /\ flight[1].v = "pending"
    /\ flight' = <<[flight[1] EXCEPT !.v = "retrieved"]>>
    /\ UNCHANGED <<profiles, sessions, customers, req, resp, hist>>

\* verify-subscription's update, one statement on one row (lines 165-173).
RaceVerifyUpdate ==
    /\ flight # NoFlight
    /\ flight[1].v = "retrieved"
    /\ profiles' = ApplyWrites(profiles, VerifyHandler(flight[1].verify).writes)
    /\ flight' = <<[flight[1] EXCEPT !.v = "done"]>>
    /\ UNCHANGED <<sessions, customers, req, resp, hist>>

\* revenuecat-webhook up to its update: the signature is verified and the
\* body parsed (lines 56-115).
RaceWebhookParse ==
    /\ flight # NoFlight
    /\ flight[1].w = "pending"
    /\ flight' = <<[flight[1] EXCEPT !.w = "parsed"]>>
    /\ UNCHANGED <<profiles, sessions, customers, req, resp, hist>>

\* revenuecat-webhook's update, one statement on one row (lines 118-127).
RaceWebhookUpdate ==
    /\ flight # NoFlight
    /\ flight[1].w = "parsed"
    /\ profiles' = ApplyWrites(profiles, WebhookHandler(flight[1].webhook).writes)
    /\ flight' = <<[flight[1] EXCEPT !.w = "done"]>>
    /\ UNCHANGED <<sessions, customers, req, resp, hist>>

\* Both have answered; time passes before the next pair.
EndRace ==
    /\ flight # NoFlight
    /\ flight[1].v = "done"
    /\ flight[1].w = "done"
    /\ flight' = NoFlight
    /\ profiles' = [u \in DOMAIN profiles |->
                        [profiles[u] EXCEPT !.updated_at = Earlier]]
    /\ UNCHANGED <<sessions, customers, req, resp, hist>>

NextRace ==
    StartRace \/ RaceVerifyRetrieve \/ RaceVerifyUpdate \/ RaceWebhookParse
        \/ RaceWebhookUpdate \/ EndRace

SpecRace == Init /\ [][NextRace]_vars

\* A pair in flight whose event is a purchase or a termination.
StartPair ==
    /\ Idle
    /\ flight = NoFlight
    /\ \E u \in Users, ty \in {"INITIAL_PURCHASE", "CANCELLATION", "EXPIRATION"},
          price \in {STRIPE_PRICE_ID_MONTHLY, STRIPE_PRICE_ID_YEARLY},
          product \in {<<monthly_premium>>, <<yearly_premium>>} :
          flight' = <<[Race(u, "paid", price, 1, product, NoDate)
                        EXCEPT !.webhook =
                            SignedEvent(Event(ty, u, product, NoDate), FALSE)]>>
    /\ UNCHANGED <<profiles, sessions, customers, req, resp, hist>>

NextWebhook == ArriveWebhook \/ HandleWebhook \/ Deliver

NextVerify == ArriveVerify \/ HandleVerify \/ Deliver

\* The subscription verifier alone, fed every request of VerifyRequests.
SpecVerify == Init /\ [][NextVerify]_vars

NextCheckout == ArriveCheckout \/ HandleCheckout \/ Deliver

\* The checkout session manager alone, fed every request of CheckoutRequests.
SpecCheckout == Init /\ [][NextCheckout]_vars

ArriveCustomer ==
    /\ Cardinality(customers) < MaxCustomers
    /\ Arrive(CustomerRequests)

\* The signup-triggered customer resolver runs.
HandleCustomer ==
    /\ Pending
    /\ req[1].fn = "create-stripe-customer"
    /\ LET out == CustomerHandler(req[1], profiles, customers, sessions)
       IN /\ profiles' = ApplyWrites(profiles, out.writes)
          /\ customers' = out.customers
          /\ resp' = <<[response |-> out.response, log |-> out.log]>>
    /\ UNCHANGED <<sessions, req, hist, flight>>

ArrivePortal == Arrive(PortalRequests)

\* The portal redirector runs.
HandlePortal ==
    /\ Pending
    /\ req[1].fn = "create-portal-session"
    /\ LET out == PortalHandler(req[1], profiles, customers)
       IN /\ profiles' = ApplyWrites(profiles, out.writes)
          /\ resp' = <<[response |-> out.response, log |-> out.log]>>
    /\ UNCHANGED <<sessions, customers, req, hist, flight>>

\* The webhook receiver alone, fed every request of WebhookRequests.
SpecWebhook == Init /\ [][NextWebhook]_vars

\* The five functions on one database and one provider account: users who
\* sign up, check out, come back to verify, open the portal, and whose events
\* the provider sends.
SystemEvents ==
    {Event(ty, "u1", <<yearly_premium>>, d) :
        ty \in RecognizedTypes \cup {"TRANSFER"},
        d \in {NoDate, DateStr("iso", At(1))}}
    \cup {Event(ty, "u2", <<monthly_premium>>, NoDate) :
            ty \in {"INITIAL_PURCHASE", "CANCELLATION"}}

ArriveSystemWebhook == Arrive({SignedEvent(ev, FALSE) : ev \in SystemEvents})

ArriveSystemVerify ==
    Arrive({VerifyRequest("POST", "json", "cs_1", "u1",
                Session("found", ps, "complete", "u1",
                        <<Subscription("ok", STRIPE_PRICE_ID_MONTHLY, e)>>),
                FALSE) :
            ps \in {"paid", "unpaid"}, e \in Seconds})

ArriveSystemCheckout ==
    /\ Len(sessions) < MaxSessions
    /\ Cardinality(customers) < MaxCustomers
    /\ Arrive({CheckoutRequest("POST", "json", p, u, "user@example.com", f,
                               "No such price") :
                p \in {STRIPE_PRICE_ID_YEARLY, "price_other"}, u \in Users,
                f \in {{}, {"retrieve"}, {"create"}, {"update"}}})

ArriveSystemCustomer ==
    /\ Cardinality(customers) < MaxCustomers
    /\ Arrive({CustomerRequest("POST", "json", <<AuthUser(u, "user@example.com")>>, f) :
                u \in Users, f \in {{}, {"create"}, {"update"}}})

ArriveSystemPortal ==
    Arrive({PortalRequest("POST", "json", u, f) :
                u \in Users \cup {Ghost}, f \in {{}, {"portal"}}})

\* Recognized events whose update the database refuses, and a verification
\* whose update it refuses.
ArriveSystemRefused ==
    Arrive({SignedEvent(Event(ty, "u1", <<yearly_premium>>, DateStr("iso", At(1))), TRUE) :
                ty \in RecognizedTypes}
           \cup {VerifyRequest("POST", "json", "cs_1", "u1",
                    Session("found", ps, "complete", "u1", <<MonthlyUntil1>>), TRUE) :
                 ps \in {"paid", "no_payment_required"}})

Next ==
    ArriveSystemWebhook \/ ArriveSystemVerify \/ ArriveSystemCheckout
        \/ ArriveSystemCustomer \/ ArriveSystemPortal \/ ArriveSystemRefused
        \/ HandleWebhook \/ HandleVerify \/ HandleCheckout
        \/ HandleCustomer \/ HandlePortal \/ Deliver

Spec == Init /\ [][Next]_vars

NextPortal ==
    ArriveCustomer \/ HandleCustomer \/ ArrivePortal \/ HandlePortal
        \/ ArriveSystemWebhook \/ HandleWebhook \/ Deliver

\* The portal redirector, fed every request of PortalRequests, beside the
\* signup resolver and the provider's events, which fill the column it reads.
SpecPortal == Init /\ [][NextPortal]_vars

\* The two writers of the subscription columns, one after the other and at
\* once: events and verifications that arrive alone, and pairs in flight.
NextSubscription ==
    StartPair \/ RaceVerifyRetrieve \/ RaceVerifyUpdate
        \/ RaceWebhookParse \/ RaceWebhookUpdate \/ EndRace
        \/ ArriveSystemWebhook \/ ArriveSystemVerify \/ ArriveSystemRefused
        \/ HandleWebhook \/ HandleVerify \/ Deliver

SpecSubscription == Init /\ [][NextSubscription]_vars

\* Two invocations of the customer resolver for one user in flight at once:
\* a create-checkout-session request beside another one or beside the
\* create-stripe-customer call of the signup trigger.  Each invocation reads
\* the profile, asks or tells the provider, and writes the id, and the
\* database and the provider see these calls in any order.  pc is the
\* invocation's position, stored the id it read, customer the id it goes on
\* with; before counts the provider's customers when the pair started.
Resolving(fn) == [fn |-> fn, pc |-> "start", stored |-> Null, customer |-> Null]

StartResolvers ==
    /\ Idle
    /\ flight = NoFlight
    /\ Cardinality(customers) < MaxCustomers
    /\ \E u \in Users, fn \in {"create-checkout-session", "create-stripe-customer"} :
          flight' = <<[user |-> u, before |-> Cardinality(customers),
                       i1 |-> Resolving("create-checkout-session"),
                       i2 |-> Resolving(fn)]>>
    /\ UNCHANGED <<profiles, sessions, customers, req, resp, hist>>

Resolvers == {"i1", "i2"}

\* select revenuecat_user_id ... .single()
ResolverRead(i) ==
    /\ flight # NoFlight
    /\ flight[1][i].pc = "start"
    /\ flight' = <<[flight[1] EXCEPT
                      ![i].pc = "read",
                      ![i].stored = profiles[flight[1].user].revenuecat_user_id]>>
    /\ UNCHANGED <<profiles, sessions, customers, req, resp, hist>>

\* The stored id is kept (create-stripe-customer: when there is one;
\* create-checkout-session: when customers.retrieve returns it), or
\* customers.create makes a new customer.
ResolverCreate(i) ==
    /\ flight # NoFlight
    /\ flight[1][i].pc = "read"
    /\ LET inv == flight[1][i]
           keeps == /\ inv.stored # Null
                    /\ \/ inv.fn = "create-stripe-customer"
                       \/ inv.stored \in customers
           id == CustomerIds[Cardinality(customers) + 1]
       IN IF keeps
          THEN /\ flight' = <<[flight[1] EXCEPT ![i].pc = "done",
                                                ![i].customer = inv.stored]>>
               /\ UNCHANGED customers
          ELSE /\ flight' = <<[flight[1] EXCEPT ![i].pc = "created",
                                                ![i].customer = id]>>
               /\ customers' = customers \cup {id}
    /\ UNCHANGED <<profiles, sessions, req, resp, hist>>

\* update({ revenuecat_user_id: customer.id }).eq('user_id', ...)
ResolverWrite(i) ==
    /\ flight # NoFlight
    /\ flight[1][i].pc = "created"
    /\ profiles' = Update(profiles, flight[1].user,
                          [revenuecat_user_id |-> flight[1][i].customer])
    /\ flight' = <<[flight[1] EXCEPT ![i].pc = "done"]>>
    /\ UNCHANGED <<sessions, customers, req, resp, hist>>

ResolversDone ==
    /\ flight # NoFlight
    /\ flight[1].i1.pc = "done"
    /\ flight[1].i2.pc = "done"

\* Both have answered.
EndResolvers ==
    /\ ResolversDone
    /\ flight' = NoFlight
    /\ UNCHANGED <<profiles, sessions, customers, req, resp, hist>>

NextResolvers ==
    StartResolvers \/ (\E i \in Resolvers : ResolverRead(i))
        \/ (\E i \in Resolvers : ResolverCreate(i))
        \/ (\E i \in Resolvers : ResolverWrite(i))
        \/ EndResolvers
        \/ ArriveSystemWebhook \/ HandleWebhook \/ Deliver

SpecResolvers == Init /\ [][NextResolvers]_vars

----------------------------------------------------------------------------
(* The client hook: src/hooks/useStripe.ts *)

\* One call of a function of the hook, held in flight: fn the function, user
\* what useAuth gives (<<>> when nobody is logged in), arg its argument (Null
\* for a falsy one), isLoading and error the hook's state, calls the number of
\* supabase.functions.invoke calls made, loadingAtInvoke isLoading at that
\* call, answer what invoke resolved to, result what the function returned.
HookFunctions ==
    {"createCheckoutSession", "handleSubscriptionSuccess", "redirectToCustomerPortal"}

HookResult(kind, url) == [kind |-> kind, url |-> url]

\* what the function returns on failure: null, or false for handleSubscriptionSuccess
HookFailed(fn) ==
    HookResult(IF fn = "handleSubscriptionSuccess" THEN "false" ELSE "null", <<>>)

\* the body the function sends to its edge function, with what the provider
\* will do to that invocation
HookRequests(h) ==
    IF h.fn = "createCheckoutSession"
    THEN {CheckoutRequest("POST", "json", h.arg, h.user[1].id, h.user[1].email,
                          f, "No such price") : f \in {{}, {"session"}}}
    ELSE IF h.fn = "handleSubscriptionSuccess"
    THEN {VerifyRequest("POST", "json", h.arg, h.user[1].id,
                        Session("found", ps, "complete", h.user[1].id,
                                <<MonthlyUntil1>>), db) :
            ps \in {"paid", "unpaid"}, db \in BOOLEAN}
         \cup {VerifyRequest("POST", "json", h.arg, h.user[1].id,
                             Session("found", "unpaid", "open", h.user[1].id, <<>>),
                             FALSE)}
    ELSE {PortalRequest("POST", "json", h.user[1].id, f) : f \in {{}, {"portal"}}}

\* A component calls a function of the hook.
HookCall ==
    /\ Idle
    /\ flight = NoFlight
    /\ Len(sessions) < MaxSessions
    /\ Cardinality(customers) < MaxCustomers
    /\ \E fn \in HookFunctions,
          user \in {<<>>, <<AuthUser("u1", "user@example.com")>>},
          arg \in {Null, STRIPE_PRICE_ID_YEARLY, "cs_1"},
          error \in {Null, "You must be logged in to subscribe"} :
          /\ fn = "createCheckoutSession" => arg # "cs_1"
          /\ fn = "handleSubscriptionSuccess" => arg # STRIPE_PRICE_ID_YEARLY
          /\ fn = "redirectToCustomerPortal" => arg = Null
          /\ flight' = <<[fn |-> fn, user |-> user, arg |-> arg, pc |-> "called",
                          isLoading |-> FALSE, error |-> error, calls |-> 0,
                          loadingAtInvoke |-> FALSE, answer |-> <<>>,
                          result |-> <<>>]>>
    /\ UNCHANGED <<profiles, sessions, customers, req, resp, hist>>

\* lines 24-35, 83-89, 134-140: the guards, then setIsLoading(true) and
\* setError(null)
HookGuard ==
    /\ flight # NoFlight
    /\ flight[1].pc = "called"
    /\ LET h == flight[1]
       IN flight' =
            IF h.user = <<>>
            THEN <<[h EXCEPT !.pc = "returned",
                             !.error = "You must be logged in",
                             !.result = <<HookFailed(h.fn)>>]>>
            ELSE IF h.fn = "createCheckoutSession" /\ h.arg = Null
            THEN <<[h EXCEPT !.pc = "returned",
                             !.error = "Invalid price ID",
                             !.result = <<HookFailed(h.fn)>>]>>
            ELSE <<[h EXCEPT !.pc = "loading", !.isLoading = TRUE, !.error = Null]>>
    /\ UNCHANGED <<profiles, sessions, customers, req, resp, hist>>

\* supabase.functions.invoke(...): the request reaches the edge function, or
\* the transport fails and invoke resolves with an error
HookInvoke ==
    /\ flight # NoFlight
    /\ flight[1].pc = "loading"
    /\ LET h == [flight[1] EXCEPT !.calls = @ + 1,
                                  !.loadingAtInvoke = flight[1].isLoading]
       IN \/ /\ \E r \in HookRequests(h) : req' = <<r>>
             /\ flight' = <<[h EXCEPT !.pc = "invoked"]>>
          \/ /\ req' = req
             /\ flight' = <<[h EXCEPT !.pc = "resolved",
                                      !.answer = <<[delivered |-> FALSE,
                                                    response |-> <<>>]>>]>>
    /\ UNCHANGED <<profiles, sessions, customers, resp, hist>>

\* the edge function's response comes back to invoke
HookResponse ==
    /\ flight # NoFlight
    /\ flight[1].pc = "invoked"
    /\ Done
    /\ flight' = <<[flight[1] EXCEPT !.pc = "resolved",
                                     !.answer = <<[delivered |-> TRUE,
                                                   response |-> <<resp[1].response>>]>>]>>
    /\ req' = <<>>
    /\ resp' = <<>>
    /\ profiles' = [u \in DOMAIN profiles |->
                        [profiles[u] EXCEPT !.updated_at = Earlier]]
    /\ UNCHANGED <<sessions, customers, hist>>

\* invoke gives { data: null, error } when the transport failed or the
\* status is not 2xx, { data, error: null } otherwise
FunctionError(answer) ==
    ~answer.delivered \/ answer.response[1].status \notin 200..299

\* lines 48-73, 100-125, 150-175 without the finally: the value returned and
\* the error set
HookOutcomeTrusting(h) ==
    IF FunctionError(h.answer[1])
    THEN [h EXCEPT !.error = "friendly:NETWORK_REQUEST_FAILED",
                   !.result = <<HookFailed(h.fn)>>]
    ELSE LET data == h.answer[1].response[1].body
         IN IF h.fn = "handleSubscriptionSuccess"
            THEN [h EXCEPT !.result = <<HookResult("true", <<>>)>>]
            ELSE [h EXCEPT !.result = <<HookResult("url", data.url)>>]
HookOutcome(h) ==
    IF FunctionError(h.answer[1])
    THEN [h EXCEPT !.error = "friendly:NETWORK_REQUEST_FAILED",
                   !.result = <<HookFailed(h.fn)>>]
    ELSE LET data == h.answer[1].response[1].body
         IN IF ~data.success
                 \/ (h.fn # "handleSubscriptionSuccess" /\ "url" \notin DOMAIN data)
            THEN [h EXCEPT !.error = "friendly:UNKNOWN_ERROR",
                           !.result = <<HookFailed(h.fn)>>]
            ELSE IF h.fn = "handleSubscriptionSuccess"
            THEN [h EXCEPT !.result = <<HookResult("true", <<>>)>>]
            ELSE [h EXCEPT !.result = <<HookResult("url", data.url)>>]

\* the rest of the try, the catch and the finally
HookSettle ==
    /\ flight # NoFlight
    /\ flight[1].pc = "resolved"
    /\ flight' = <<[HookOutcome(flight[1]) EXCEPT !.pc = "returned",
                                                 !.isLoading = FALSE]>>
    /\ UNCHANGED <<profiles, sessions, customers, req, resp, hist>>

\* The component has the value; the next call may come.
HookEnd ==
    /\ flight # NoFlight
    /\ flight[1].pc = "returned"
    /\ flight' = NoFlight
    /\ UNCHANGED <<profiles, sessions, customers, req, resp, hist>>

NextHook ==
    HookCall \/ HookGuard \/ HookInvoke \/ HookResponse \/ HookSettle \/ HookEnd
        \/ HandleCheckout \/ HandleVerify \/ HandlePortal

SpecHook == Init /\ [][NextHook]_vars

\* One user's way through the system: the signup inserts the profile, the
\* signup trigger may call the customer resolver, the user checks out for the
\* yearly price, the provider reports the INITIAL_PURCHASE and later the
\* CANCELLATION.  hist.journey holds the steps begun so far, in order.
JourneyDates == {NoDate} \cup {DateStr("iso", t) : t \in Instants}

JourneyStep == hist.journey[Len(hist.journey)].step
JourneyUser == hist.journey[1].user

JourneyArrive(step, requests) ==
    /\ Idle
    /\ flight = NoFlight
    /\ \E r \in requests : req' = <<r>>
    /\ hist' = [hist EXCEPT !.journey =
                    Append(@, [step |-> step, user |-> JourneyUser])]
    /\ UNCHANGED <<profiles, sessions, customers, resp, flight>>

\* on_auth_user_created: handle_new_user inserts the profile of the new user
JourneySignup ==
    /\ Idle
    /\ flight = NoFlight
    /\ hist.journey = <<>>
    /\ \E u \in Users :
          /\ profiles' = [profiles EXCEPT ![u] = NewProfile]
          /\ hist' = [hist EXCEPT !.journey = <<[step |-> "signup", user |-> u]>>]
    /\ UNCHANGED <<sessions, customers, req, resp, flight>>

JourneyResolver ==
    /\ hist.journey # <<>>
    /\ JourneyStep = "signup"
    /\ Cardinality(customers) < MaxCustomers
    /\ JourneyArrive("resolver",
            {CustomerRequest("POST", "json",
                             <<AuthUser(JourneyUser, "user@example.com")>>, f) :
                f \in {{}, {"create"}, {"update"}}})

JourneyCheckout ==
    /\ hist.journey # <<>>
    /\ JourneyStep \in {"signup", "resolver"}
    /\ Len(sessions) < MaxSessions
    /\ Cardinality(customers) < MaxCustomers
    /\ JourneyArrive("checkout",
            {CheckoutRequest("POST", "json", STRIPE_PRICE_ID_YEARLY, JourneyUser,
                             "user@example.com", f, "No such price") :
                f \in CallFailures})

JourneyPurchase ==
    /\ hist.journey # <<>>
    /\ JourneyStep = "checkout"
    /\ JourneyArrive("purchase",
            {SignedEvent(Event("INITIAL_PURCHASE", JourneyUser,
                               <<yearly_premium>>, d), db) :
                d \in JourneyDates, db \in BOOLEAN})

JourneyCancel ==
    /\ hist.journey # <<>>
    /\ JourneyStep = "purchase"
    /\ JourneyArrive("cancel",
            {SignedEvent(Event("CANCELLATION", JourneyUser,
                               <<yearly_premium>>, d), db) :
                d \in JourneyDates, db \in BOOLEAN})

NextJourney ==
    JourneySignup \/ JourneyResolver \/ JourneyCheckout \/ JourneyPurchase
        \/ JourneyCancel \/ HandleCustomer \/ HandleCheckout \/ HandleWebhook
        \/ Deliver

SpecJourney == Init /\ [][NextJourney]_vars

\* verifySignature alone, called on every payload, key and signature string
\* of the sets below: the lower-case or upper-case hex of the tag of any of
\* the payloads under any of the keys.
SignaturePayloads ==
    {RawBody(j, ev, sp) :
        j \in {"event", "malformed"},
        ev \in {Event("INITIAL_PURCHASE", "u1", <<yearly_premium>>, NoDate),
                Event("CANCELLATION", "u1", <<yearly_premium>>, NoDate)},
        sp \in BOOLEAN}
SignatureKeys == {REVENUECAT_SECRET_API_KEY, "other_secret"}
SignatureStrings ==
    {[tag |-> Hmac(p, k), upper |-> up] :
        p \in SignaturePayloads, k \in SignatureKeys, up \in BOOLEAN}

InitSignature ==
    /\ profiles = [u \in Users |-> NewProfile]
    /\ sessions = <<>>
    /\ customers = {}
    /\ req \in {<<[fn |-> "verifySignature", payload |-> p, signature |-> sig,
                   secretKey |-> k, fails |-> f]>> :
                    p \in SignaturePayloads, sig \in SignatureStrings,
                    k \in SignatureKeys, f \in BOOLEAN}
    /\ resp = <<>>
    /\ hist = NoHistory
    /\ flight = NoFlight

\* the call returns
VerifySignatureReturns ==
    /\ Pending
    /\ req[1].fn = "verifySignature"
    /\ resp' = <<[response |-> verifySignature(req[1].payload, req[1].signature,
                                                req[1].secretKey, req[1].fails),
                   log |-> <<>>]>>
    /\ UNCHANGED <<profiles, sessions, customers, req, hist, flight>>

SpecSignature == InitSignature /\ [][VerifySignatureReturns]_vars

\* One invocation of any of the five functions: any request of the five
\* request sets, met in a database and provider account in which each user
\* has or has not a customer id and the provider knows or does not know the
\* customer.  The runtime runs the handler of a request it has accepted and
\* sends the response the handler returns.
AnswerRows == {NewProfile, [NewProfile EXCEPT !.revenuecat_user_id = "cus_1"]}

AnswerRequests ==
    WebhookRequests \cup VerifyRequests \cup CheckoutRequests
        \cup CustomerRequests \cup PortalRequests

InitAnswer ==
    /\ profiles \in [Users -> AnswerRows]
    /\ sessions = <<>>
    /\ customers \in {{}, {"cus_1"}}
    /\ req \in {<<r>> : r \in AnswerRequests}
    /\ resp = <<>>
    /\ hist = NoHistory
    /\ flight = NoFlight

HandleAny ==
    HandleWebhook \/ HandleVerify \/ HandleCheckout \/ HandleCustomer
        \/ HandlePortal

NextAnswer == HandleAny \/ Deliver

SpecAnswer ==
    InitAnswer /\ [][NextAnswer]_vars /\ WF_vars(HandleAny) /\ WF_vars(Deliver)


----------------------------------------------------------------------------
(* Reading one invocation *)

TheRequest == req[1]
TheResponse == resp[1].response
TheLog == resp[1].log

\* every b in the log has an a before it
Precedes(log, a, b) ==
    \A j \in 1..Len(log) : log[j] = b => \E i \in 1..(j - 1) : log[i] = a

Logged(log, a) == \E i \in 1..Len(log) : log[i] = a

\* The request is a POST to the webhook receiver.
WebhookPost(r) == r.fn = "revenuecat-webhook" /\ r.method = "POST"

\* The header is the lower-case hex HMAC-SHA256 of the raw body under the
\* shared secret, and the runtime could compute it.
Authentic(r) ==
    /\ r.signature = <<HexLower(Hmac(r.body, REVENUECAT_SECRET_API_KEY))>>
    /\ ~r.cryptoError

\* A verified POST that carries an event.
VerifiedEvent(r) == WebhookPost(r) /\ Authentic(r) /\ r.body.json = "event"

AckReceived(response) ==
    /\ response.status = 200
    /\ response.body = [success |-> TRUE, received |-> TRUE]

Rejected(response, status) ==
    /\ response.status = status
    /\ "success" \in DOMAIN response.body
    /\ response.body.success = FALSE

\* "yearly_premium" and "premium_annual" contain "yearly" or "annual";
\* "monthly_premium" and "YEARLY_PRO" do not.
ExpectedTier(productId) ==
    IF productId \in {yearly_premium, premium_annual} THEN "premium_plus"
    ELSE "premium"

\* the instant a date field denotes; SqlNull when the event carries none
ExpiryOf(ev) == ev.expires_date.t

ExpectedTierOfPrice(priceId) ==
    IF priceId = "price_yearly" THEN "premium_plus" ELSE "premium"

----------------------------------------------------------------------------
(* C1 *)

\* C1: a POST to the webhook receiver without an X-Signature header, or with
\* a signature that does not verify against the raw body, is answered with
\* status 400 and success:false and changes no profile; and an invocation
\* that parses the body or updates a profile has verified the signature of
\* its own request before.
C1_UnverifiedChangesNothing ==
    [][(Pending /\ WebhookPost(TheRequest)) =>
        /\ ~Authentic(TheRequest) =>
              /\ Rejected(resp'[1].response, 400)
              /\ profiles' = profiles
        /\ Precedes(resp'[1].log, "verifySignature:true", "JSON.parse")
        /\ Precedes(resp'[1].log, "verifySignature:true", "JSON.parse:throws")
        /\ Precedes(resp'[1].log, "verifySignature:true", "profiles.update")
        /\ Precedes(resp'[1].log, "verifySignature:true", "profiles.update:error")
        /\ Precedes(resp'[1].log, "JSON.parse", "profiles.update")
        /\ profiles' # profiles =>
              /\ Authentic(TheRequest)
              /\ Logged(resp'[1].log, "profiles.update")
    ]_vars

\* A forged purchase event for a user with a profile has been rejected.
C1_Witness ==
    /\ Done
    /\ WebhookPost(TheRequest)
    /\ TheRequest.signature # <<>>
    /\ ~Authentic(TheRequest)
    /\ TheRequest.body.event.type = "INITIAL_PURCHASE"
    /\ TheRequest.body.event.app_user_id \in Users
    /\ TheResponse.status = 400

----------------------------------------------------------------------------
(* C2 *)

UpdateSucceeded == Logged(TheLog, "profiles.update")

\* C2: after a verified INITIAL_PURCHASE, RENEWAL, RESTORE or
\* NON_RENEWING_PURCHASE event for user u whose profile update succeeded, u's
\* profile has status premium, tier premium_plus if the product id contains
\* "yearly" or "annual" and premium otherwise, and the expiry instant of the
\* event (NULL when it carries none); the response is 200 {success, received}.
C2_PurchaseApplied ==
    (Done /\ VerifiedEvent(TheRequest)
          /\ TheRequest.body.event.type \in PurchaseTypes
          /\ UpdateSucceeded) =>
        LET ev == TheRequest.body.event
        IN /\ AckReceived(TheResponse)
           /\ ev.app_user_id \in Users =>
                /\ profiles[ev.app_user_id].subscription_status = "premium"
                /\ profiles[ev.app_user_id].subscription_tier
                      = ExpectedTier(ev.product_id[1])
                /\ profiles[ev.app_user_id].subscription_expires_at = ExpiryOf(ev)

\* A yearly purchase whose date is not in toISOString's form has been applied
\* to a profile.
C2_Witness ==
    /\ Done
    /\ VerifiedEvent(TheRequest)
    /\ TheRequest.body.event.type = "RESTORE"
    /\ TheRequest.body.event.product_id = <<premium_annual>>
    /\ TheRequest.body.event.expires_date = DateStr("offset", At(1))
    /\ TheRequest.body.event.app_user_id = "u1"
    /\ UpdateSucceeded
    /\ profiles["u1"].subscription_tier = "premium_plus"

----------------------------------------------------------------------------
(* C3 *)

\* C3: after a verified CANCELLATION event for user u whose update succeeded,
\* u's status is cancelled; after a verified EXPIRATION or BILLING_ISSUE event
\* it is expired; in both cases the expiry is the event's.
C3_TerminationApplied ==
    (Done /\ VerifiedEvent(TheRequest)
          /\ TheRequest.body.event.type \in TerminationTypes
          /\ UpdateSucceeded
          /\ TheRequest.body.event.app_user_id \in Users) =>
        LET ev == TheRequest.body.event
            row == profiles[ev.app_user_id]
        IN /\ ev.type = "CANCELLATION" => row.subscription_status = "cancelled"
           /\ ev.type \in {"EXPIRATION", "BILLING_ISSUE"} =>
                row.subscription_status = "expired"
           /\ row.subscription_expires_at = ExpiryOf(ev)

\* A billing issue has expired a premium profile.
C3_Witness ==
    /\ Done
    /\ VerifiedEvent(TheRequest)
    /\ TheRequest.body.event.type = "BILLING_ISSUE"
    /\ TheRequest.body.event.app_user_id = "u2"
    /\ TheRequest.body.event.expires_date = DateStr("iso", At(MaxInstant))
    /\ UpdateSucceeded
    /\ profiles["u2"].subscription_status = "expired"
    /\ profiles["u2"].subscription_tier = "premium"

----------------------------------------------------------------------------
(* C4 *)

\* C4: a verified POST whose event has a type that is none of the seven
\* recognized ones is answered with 200 {success:true, received:true} and
\* leaves every field of every profile as it was.
C4_UnknownEventIgnored ==
    [][(Pending /\ VerifiedEvent(TheRequest)
                /\ TheRequest.body.event.type \notin RecognizedTypes) =>
        /\ AckReceived(resp'[1].response)
        /\ profiles' = profiles
    ]_vars

\* An event of an unrecognized type for a premium user has been acknowledged.
C4_Witness ==
    /\ Done
    /\ VerifiedEvent(TheRequest)
    /\ TheRequest.body.event.type = "TRANSFER"
    /\ TheRequest.body.event.app_user_id = "u1"
    /\ profiles["u1"].subscription_status = "premium"
    /\ TheResponse.status = 200

----------------------------------------------------------------------------
(* C5 *)

\* C5: for any profile state and any verified INITIAL_PURCHASE event e,
\* after e has been applied two or more times in a row the profile's status,
\* tier and expiry are those it had after e was applied once.
C5_PurchaseIdempotent ==
    (hist.replay # <<>> /\ hist.replay[1].count >= 2) =>
        SubscriptionOf(profiles[hist.replay[1].event.app_user_id])
            = hist.replay[1].first[1]

\* A yearly purchase has been applied MaxReplays times to u1's profile, after
\* other events had already brought u2's profile to expired.
C5_Witness ==
    /\ Done
    /\ hist.replay # <<>>
    /\ hist.replay[1].count = MaxReplays
    /\ hist.replay[1].event.app_user_id = "u1"
    /\ hist.replay[1].event.product_id = <<yearly_premium>>
    /\ hist.replay[1].event.expires_date = DateStr("iso", At(1))
    /\ TheRequest.body.event = hist.replay[1].event
    /\ profiles["u1"].subscription_tier = "premium_plus"
    /\ profiles["u2"].subscription_status = "expired"

----------------------------------------------------------------------------
(* C6 *)

StatusAfter(type) ==
    IF type \in PurchaseTypes THEN "premium"
    ELSE IF type = "CANCELLATION" THEN "cancelled"
    ELSE "expired"

\* C6: after any sequence of verified events for a user, the profile's status
\* and expiry are those of the last recognized event in arrival order,
\* whatever the events' own dates: a RENEWAL followed by a CANCELLATION leaves
\* cancelled, and a CANCELLATION followed by a RENEWAL that carries an earlier
\* expiry leaves premium with the RENEWAL's expiry.
C6_LastArrivalWins ==
    hist.arrivals # <<>> =>
        LET a == hist.arrivals
            last == a[Len(a)]
            row == profiles[Tracked]
        IN /\ row.subscription_status = StatusAfter(last.type)
           /\ row.subscription_expires_at = ExpiryOf(last)
           /\ (Len(a) = 2 /\ a[1].type = "RENEWAL" /\ last.type = "CANCELLATION") =>
                row.subscription_status = "cancelled"
           /\ (Len(a) = 2 /\ a[1].type = "CANCELLATION" /\ last.type = "RENEWAL"
                 /\ last.expires_date.kind = "iso"
                 /\ ExpiryOf(last) < ExpiryOf(a[1])) =>
                /\ row.subscription_status = "premium"
                /\ row.subscription_expires_at = ExpiryOf(last)

\* A CANCELLATION with the later expiry was applied, then a stale RENEWAL with
\* the earlier one, and unverified or unrecognized traffic has arrived since.
C6_Witness ==
    /\ Done
    /\ ~Applies(TheRequest)
    /\ Len(hist.arrivals) = 2
    /\ hist.arrivals[1].type = "CANCELLATION"
    /\ hist.arrivals[1].expires_date = DateStr("iso", At(2))
    /\ hist.arrivals[2].type = "RENEWAL"
    /\ hist.arrivals[2].expires_date = DateStr("iso", At(1))
    /\ profiles[Tracked].subscription_status = "premium"
    /\ profiles[Tracked].subscription_expires_at = At(1)

----------------------------------------------------------------------------
(* C7 *)

RaceDone == flight # NoFlight /\ flight[1].v = "done" /\ flight[1].w = "done"

\* What each path derives for its update.
VerifierDerives == SubscriptionOf(VerifyHandler(flight[1].verify).writes[1].fields)
WebhookDerives == SubscriptionOf(WebhookHandler(flight[1].webhook).writes[1].fields)

RaceSubscription == flight[1].verify.stripe.subscription[1]
RaceEvent == flight[1].webhook.body.event

\* The event describes the subscription the way the two derivations need: its
\* product id is one of the yearly names exactly for the yearly price, and its
\* expires_date denotes the subscription's current period end.
EventMatchesSubscription ==
    /\ RaceEvent.product_id[1] \in {yearly_premium, premium_annual}
            <=> RaceSubscription.price = "price_yearly"
    /\ RaceEvent.expires_date.kind \in {"iso", "offset"}
    /\ RaceEvent.expires_date.t = At(RaceSubscription.current_period_end)

\* C7 as stated: when the verifier (completed session) and the webhook
\* receiver (purchase event of the same user's subscription) have both
\* written, in either order and under any interleaving, both derived the same
\* status, tier and expiry and the profile holds them.
C7_AnyPurchaseEventConverges ==
    RaceDone =>
        /\ VerifierDerives = WebhookDerives
        /\ SubscriptionOf(profiles[flight[1].user]) = VerifierDerives

\* C7: when the verifier (completed session) and the webhook receiver
\* (purchase event) have both written for the same user, in either order and
\* under any interleaving, and the event's product id names the yearly plan
\* exactly when the subscription has the yearly price and its expires_date is
\* the subscription's current period end, then both derived the same status,
\* tier and expiry, and the profile holds them: premium, the tier of the
\* price, the period end.
C7_MatchingEventConverges ==
    (RaceDone /\ EventMatchesSubscription) =>
        /\ VerifierDerives = WebhookDerives
        /\ SubscriptionOf(profiles[flight[1].user]) = VerifierDerives
        /\ VerifierDerives =
            [subscription_status |-> "premium",
             subscription_tier |-> ExpectedTierOfPrice(RaceSubscription.price),
             subscription_expires_at |-> At(RaceSubscription.current_period_end)]

\* A yearly subscription in its trial, its event named premium_annual, both
\* written to u1's profile, after an earlier pair had left u2 monthly.
C7_Witness ==
    /\ RaceDone
    /\ EventMatchesSubscription
    /\ flight[1].user = "u1"
    /\ flight[1].verify.stripe.payment_status = "no_payment_required"
    /\ RaceSubscription.price = "price_yearly"
    /\ RaceSubscription.current_period_end = 2
    /\ RaceEvent.product_id = <<premium_annual>>
    /\ profiles["u1"].subscription_tier = "premium_plus"
    /\ profiles["u1"].subscription_expires_at = At(2)
    /\ profiles["u2"].subscription_tier = "premium"

----------------------------------------------------------------------------
(* C8 *)

\* The request is a POST to verify-subscription with a JSON body that names a
\* session and a user, and the provider returned the session.
VerifyPost(r) ==
    /\ r.fn = "verify-subscription"
    /\ r.method = "POST"
    /\ r.body = "json"
    /\ r.sessionId # Null
    /\ r.userId # Null
    /\ r.stripe.kind = "found"

\* C8: when the retrieved checkout session has neither payment_status 'paid'
\* nor status 'complete', verify-subscription answers 200 with success:false,
\* does not retrieve the subscription and leaves every profile unchanged.
C8_NotCompletedChangesNothing ==
    [][(Pending /\ VerifyPost(TheRequest)
                /\ TheRequest.stripe.payment_status \notin {"paid"}
                /\ TheRequest.stripe.status \notin {"complete"}) =>
        /\ resp'[1].response.status = 200
        /\ resp'[1].response.body.success = FALSE
        /\ ~Logged(resp'[1].log, "subscriptions.retrieve")
        /\ ~Logged(resp'[1].log, "subscriptions.retrieve:throws")
        /\ ~Logged(resp'[1].log, "profiles.update")
        /\ profiles' = profiles
    ]_vars

\* An expired, unpaid session that carries a subscription has been refused.
C8_Witness ==
    /\ Done
    /\ VerifyPost(TheRequest)
    /\ TheRequest.stripe.payment_status = "unpaid"
    /\ TheRequest.stripe.status = "expired"
    /\ TheRequest.stripe.subscription # <<>>
    /\ TheRequest.userId = "u1"
    /\ TheResponse.status = 200
    /\ profiles["u1"].subscription_status = "free"

----------------------------------------------------------------------------
(* C9 *)

\* The session passed the completion check and its subscription could be
\* read: a price that is the monthly or the yearly one, a period end.
CompletedWithSubscription(r) ==
    /\ VerifyPost(r)
    /\ (r.stripe.payment_status = "paid" \/ r.stripe.status = "complete")
    /\ r.stripe.subscription # <<>>
    /\ r.stripe.subscription[1].retrieve = "ok"
    /\ r.stripe.subscription[1].price
          \in {STRIPE_PRICE_ID_MONTHLY, STRIPE_PRICE_ID_YEARLY}
    /\ r.stripe.subscription[1].current_period_end \in Seconds

\* C9: for a completed session with a subscription (and a database that
\* takes the update), verify-subscription writes to the profile of the
\* request's userId status premium, tier premium for the monthly price and
\* premium_plus for the yearly price, and the subscription's current period
\* end; the success response carries the status, tier and expiry written.
C9_CompletedApplied ==
    (Done /\ CompletedWithSubscription(TheRequest) /\ ~TheRequest.dbError) =>
        LET sub == TheRequest.stripe.subscription[1]
            body == TheResponse.body
        IN /\ TheResponse.status = 200
           /\ body.success = TRUE
           /\ body.subscription_status = "premium"
           /\ body.subscription_tier = ExpectedTierOfPrice(sub.price)
           /\ body.subscription_expires_at
                 = DateStr("iso", 1000 * sub.current_period_end)
           /\ TheRequest.userId \in Users =>
                LET row == profiles[TheRequest.userId]
                IN /\ row.subscription_status = body.subscription_status
                   /\ row.subscription_tier = body.subscription_tier
                   /\ row.subscription_expires_at = body.subscription_expires_at.t
                   /\ row.updated_at = ThisRequest

\* A yearly trial checkout of u2 has been applied.
C9_Witness ==
    /\ Done
    /\ CompletedWithSubscription(TheRequest)
    /\ ~TheRequest.dbError
    /\ TheRequest.userId = "u2"
    /\ TheRequest.stripe.payment_status = "no_payment_required"
    /\ TheRequest.stripe.subscription[1].price = STRIPE_PRICE_ID_YEARLY
    /\ TheRequest.stripe.subscription[1].current_period_end = MaxInstant
    /\ profiles["u2"].subscription_tier = "premium_plus"
    /\ profiles["u2"].subscription_expires_at = At(MaxInstant)

----------------------------------------------------------------------------
(* C10 *)

CheckoutPost(r) ==
    r.fn = "create-checkout-session" /\ r.method = "POST" /\ r.body = "json"

\* C10: a create-checkout-session request whose priceId is neither the
\* configured monthly nor the configured yearly price id is rejected with
\* status 400; the invocation calls neither the provider nor the database
\* (no customer or session is created, no profile read or written).
C10_PriceAllowList ==
    [][(Pending /\ CheckoutPost(TheRequest)
                /\ TheRequest.priceId \notin {"price_monthly", "price_yearly"}) =>
        /\ Rejected(resp'[1].response, 400)
        /\ resp'[1].log = <<>>
        /\ customers' = customers
        /\ sessions' = sessions
        /\ profiles' = profiles
    ]_vars

\* A complete request for a price that is not configured has been rejected
\* after an earlier checkout of the same user went through.
C10_Witness ==
    /\ Done
    /\ CheckoutPost(TheRequest)
    /\ TheRequest.priceId = "price_other"
    /\ TheRequest.userId = "u1"
    /\ TheRequest.email # Null
    /\ TheResponse.status = 400
    /\ profiles["u1"].revenuecat_user_id \in customers
    /\ Len(sessions) = 1

----------------------------------------------------------------------------
(* C11 *)

\* This step is the handler of function fn answering its request.
Handles(fn) == Pending /\ req[1].fn = fn /\ resp' # <<>>

\* The request reaches the customer resolution of its function, for a user
\* with a profile, and no call but the provider's lookup fails.
ResolvesCustomer(r) ==
    /\ ~r.profileError /\ ~r.createError /\ ~r.updateError
    /\ \/ /\ r.fn = "create-checkout-session"
          /\ r.method = "POST" /\ r.body = "json"
          /\ r.userId \in Users /\ r.email # Null
          /\ r.priceId \in {"price_monthly", "price_yearly"}
          /\ ~r.sessionError
       \/ /\ r.fn = "create-stripe-customer"
          /\ r.method # "OPTIONS" /\ r.body = "json"
          /\ r.record # <<>>
          /\ r.record[1].id \in Users /\ r.record[1].email # Null

ResolvedUser(r) ==
    IF r.fn = "create-checkout-session" THEN r.userId ELSE r.record[1].id

\* C11: in every invocation of create-checkout-session or
\* create-stripe-customer that resolves a customer: if the profile's stored
\* id exists at the provider, no customer is created and the stored id stays;
\* if the stored id is null or not found at the provider, exactly one customer
\* is created and its id is stored in the profile.
C11_ResolutionWithoutDuplicates ==
    [][ ((Handles("create-checkout-session") \/ Handles("create-stripe-customer"))
            /\ ResolvesCustomer(req[1])) =>
        LET u == ResolvedUser(req[1])
            stored == profiles[u].revenuecat_user_id
        IN IF stored # Null /\ stored \in customers
           THEN /\ customers' = customers
                /\ profiles'[u].revenuecat_user_id = stored
           ELSE /\ Cardinality(customers') = Cardinality(customers) + 1
                /\ profiles'[u].revenuecat_user_id \in customers' \ customers ]_vars

----------------------------------------------------------------------------
(* C12 *)

\* C12: whenever a profile's non-null revenuecat_user_id changes to another
\* value, the step is an invocation of a customer resolver
\* (create-checkout-session or create-stripe-customer) for that user which
\* looked the stored id up at the provider and the provider did not have it;
\* no other operation replaces a stored id.
C12_ReissuedOnlyOnAbsence ==
    [][ \A u \in Users :
          ( /\ profiles[u].revenuecat_user_id # Null
            /\ profiles'[u].revenuecat_user_id # profiles[u].revenuecat_user_id ) =>
          /\ Handles("create-checkout-session") \/ Handles("create-stripe-customer")
          /\ ResolvedUser(req[1]) = u
          /\ profiles[u].revenuecat_user_id \notin customers
          /\ ~req[1].retrieveError
          /\ Logged(resp'[1].log, "customers.retrieve:throws") ]_vars

----------------------------------------------------------------------------
(* C13 *)

\* C13: once a profile's revenuecat_user_id is non-null it is non-null after
\* every step of every handler.
C13_CustomerIdNeverCleared ==
    [][ \A u \in Users :
          profiles[u].revenuecat_user_id # Null =>
              profiles'[u].revenuecat_user_id # Null ]_vars

\* The renewal of a user whose checkout had stored a customer id has been
\* applied: the column has been written again and is not null.
C13_Witness ==
    /\ Done
    /\ VerifiedEvent(TheRequest)
    /\ TheRequest.body.event.type = "RENEWAL"
    /\ TheRequest.body.event.app_user_id = "u1"
    /\ UpdateSucceeded
    /\ "cus_1" \in customers
    /\ sessions # <<>>
    /\ sessions[1].metadata.userId = "u1"
    /\ profiles["u1"].revenuecat_user_id # Null

----------------------------------------------------------------------------
(* C14 *)

\* C14: an invocation of create-checkout-session, create-stripe-customer or
\* create-portal-session changes subscription_status, subscription_tier and
\* subscription_expires_at of no profile; every step that changes one of them
\* is an invocation of revenuecat-webhook or verify-subscription.
C14_SubscriptionWriters ==
    [][ /\ ( Handles("create-checkout-session") \/ Handles("create-stripe-customer")
               \/ Handles("create-portal-session") ) =>
            \A u \in Users : SubscriptionOf(profiles'[u]) = SubscriptionOf(profiles[u])
        /\ (\E u \in Users : SubscriptionOf(profiles'[u]) # SubscriptionOf(profiles[u])) =>
            Handles("revenuecat-webhook") \/ Handles("verify-subscription") ]_vars

\* A checkout has created a customer for a premium_plus user and stored its
\* id: the subscription columns are as the purchase left them.
C14_Witness ==
    /\ Done
    /\ TheRequest.fn = "create-checkout-session"
    /\ Logged(TheLog, "profiles.update")
    /\ profiles[TheRequest.userId].subscription_status = "premium"
    /\ profiles[TheRequest.userId].subscription_tier = "premium_plus"
    /\ profiles[TheRequest.userId].revenuecat_user_id \in customers

----------------------------------------------------------------------------
(* C15 *)

\* C15: a POST to create-portal-session for a user whose profile has no
\* revenuecat_user_id is answered 400 with success:false and asks the
\* provider for no portal session; and every invocation of
\* create-portal-session, whatever its request and outcome, changes no
\* profile field and creates no provider customer (nor checkout session).
C15_PortalReadsOnly ==
    [][ Handles("create-portal-session") =>
        /\ profiles' = profiles
        /\ customers' = customers
        /\ sessions' = sessions
        /\ ( /\ req[1].method = "POST" /\ req[1].body = "json"
             /\ req[1].userId \in Users
             /\ ~req[1].profileError
             /\ profiles[req[1].userId].revenuecat_user_id = Null ) =>
            /\ Rejected(resp'[1].response, 400)
            /\ ~Logged(resp'[1].log, "billingPortal.sessions.create")
            /\ ~Logged(resp'[1].log, "billingPortal.sessions.create:throws") ]_vars

\* u2, who has no customer id, was refused the portal, while u1 has one.
C15_Witness ==
    /\ Done
    /\ TheRequest.fn = "create-portal-session"
    /\ TheRequest.method = "POST"
    /\ TheRequest.userId = "u2"
    /\ ~TheRequest.profileError
    /\ profiles["u2"].revenuecat_user_id = Null
    /\ profiles["u1"].revenuecat_user_id \in customers
    /\ TheResponse.status = 400

----------------------------------------------------------------------------
(* C16 *)

\* C16: when the database refuses the profile update of a verified event of
\* a recognized type in revenuecat-webhook, or of a completed session with a
\* subscription in verify-subscription, the response has status 500 and
\* success:false (never 200).
C16_WriteFailureIsHard ==
    (Done /\ TheRequest.fn \in {"revenuecat-webhook", "verify-subscription"}
          /\ TheRequest.dbError) =>
        /\ ( VerifiedEvent(TheRequest)
               /\ TheRequest.body.event.type \in RecognizedTypes ) =>
            Rejected(TheResponse, 500)
        /\ CompletedWithSubscription(TheRequest) => Rejected(TheResponse, 500)

\* The update of a BILLING_ISSUE for a user still free was refused and
\* answered 500.
C16_Witness ==
    /\ Done
    /\ VerifiedEvent(TheRequest)
    /\ TheRequest.dbError
    /\ TheRequest.body.event.type = "BILLING_ISSUE"
    /\ Logged(TheLog, "profiles.update:error")
    /\ TheResponse.status = 500
    /\ profiles["u1"].subscription_status = "free"

----------------------------------------------------------------------------
(* C17 *)

\* the instant the column holds for the date of a journey's event
JourneyExpiry(ev) ==
    IF ev.expires_date = NoDate THEN SqlNull ELSE ev.expires_date.t

\* C17: along the journey of one user: the profile the signup inserts is
\* {status free, tier free, expires_at null, customer id null}; the checkout
\* for the configured yearly price, when the provider creates what it is asked
\* for, answers 200 with success and a checkout URL, and the status is free
\* until the purchase is reported; the verified INITIAL_PURCHASE for
\* "yearly_premium" whose update the database accepts makes the profile
\* {premium, premium_plus, the event's expiry}; the later verified
\* CANCELLATION makes the status cancelled and the expiry the one of that
\* event.
C17_Journey ==
    hist.journey # <<>> =>
        LET row == profiles[JourneyUser]
        IN /\ JourneyStep = "signup" =>
                /\ SubscriptionOf(row) =
                      [subscription_status |-> "free",
                       subscription_tier |-> "free",
                       subscription_expires_at |-> SqlNull]
                /\ row.revenuecat_user_id = Null
           /\ JourneyStep \in {"signup", "resolver", "checkout"} =>
                row.subscription_status = "free"
           /\ ( JourneyStep = "checkout" /\ Done
                  /\ ~TheRequest.profileError /\ ~TheRequest.createError
                  /\ ~TheRequest.sessionError ) =>
                /\ TheResponse.status = 200
                /\ TheResponse.body.success = TRUE
                /\ TheResponse.body.url = <<"checkout", sessions[Len(sessions)].id>>
                /\ sessions[Len(sessions)].price = "price_yearly"
           /\ (JourneyStep = "purchase" /\ Done /\ ~TheRequest.dbError) =>
                SubscriptionOf(row) =
                    [subscription_status |-> "premium",
                     subscription_tier |-> "premium_plus",
                     subscription_expires_at |-> JourneyExpiry(TheRequest.body.event)]
           /\ (JourneyStep = "cancel" /\ Done /\ ~TheRequest.dbError) =>
                /\ row.subscription_status = "cancelled"
                /\ row.subscription_expires_at = JourneyExpiry(TheRequest.body.event)

\* The whole journey: signup, resolver, checkout, a purchase until second 2
\* that was applied, and the cancellation as of second 1 answered.
C17_Witness ==
    /\ Done
    /\ [i \in 1..Len(hist.journey) |-> hist.journey[i].step]
            = <<"signup", "resolver", "checkout", "purchase", "cancel">>
    /\ JourneyUser = "u1"
    /\ ~TheRequest.dbError
    /\ TheRequest.body.event.expires_date = DateStr("iso", At(1))
    /\ profiles["u1"].subscription_status = "cancelled"
    /\ profiles["u1"].subscription_tier = "premium_plus"
    /\ profiles["u1"].subscription_expires_at = At(1)
    /\ Len(sessions) = 1

----------------------------------------------------------------------------
(* C18 *)

\* the signature string is the lower-case hex of the tag of this payload
\* under this key
RoundTrip(r) ==
    /\ r.signature.tag.payload = r.payload
    /\ r.signature.tag.key = r.secretKey
    /\ ~r.signature.upper

----------------------------------------------------------------------------
(* C19 *)

\* C19: create-checkout-session asks the provider for a checkout session only
\* after the same invocation has resolved a customer id: the id the profile
\* stores, which the provider returned on retrieve, or the id of a customer
\* the invocation created; the session is created for that customer.  When
\* customers.create fails, the response is 500 with success false and the
\* invocation neither asks for nor creates a session.
C19_CustomerBeforeSession ==
    [][Handles("create-checkout-session") =>
        LET r == req[1]
            log == resp'[1].log
            asked == Logged(log, "sessions.create")
                        \/ Logged(log, "sessions.create:throws")
        IN /\ asked =>
                \/ /\ Logged(log, "customers.retrieve")
                   /\ Precedes(log, "customers.retrieve", "sessions.create")
                   /\ Precedes(log, "customers.retrieve", "sessions.create:throws")
                   /\ customers' = customers
                \/ /\ Logged(log, "customers.create")
                   /\ Precedes(log, "customers.create", "sessions.create")
                   /\ Precedes(log, "customers.create", "sessions.create:throws")
                   /\ Cardinality(customers') = Cardinality(customers) + 1
           /\ sessions' # sessions =>
                /\ Logged(log, "sessions.create")
                /\ Len(sessions') = Len(sessions) + 1
                /\ sessions'[Len(sessions')].customer \in customers'
                /\ IF Logged(log, "customers.retrieve")
                   THEN sessions'[Len(sessions')].customer
                            = profiles[r.userId].revenuecat_user_id
                   ELSE sessions'[Len(sessions')].customer \notin customers
           /\ Logged(log, "customers.create:throws") =>
                /\ Rejected(resp'[1].response, 500)
                /\ ~asked
                /\ sessions' = sessions
                /\ customers' = customers
    ]_vars

\* A second checkout of u1 found the stored customer at the provider and got
\* its session for it, after a checkout whose customers.create had failed.
C19_Witness ==
    /\ Done
    /\ CheckoutPost(TheRequest)
    /\ TheRequest.userId = "u1"
    /\ TheRequest.createError
    /\ TheLog = <<"profiles.select", "customers.retrieve", "sessions.create">>
    /\ Len(sessions) = 2
    /\ sessions[2].customer = profiles["u1"].revenuecat_user_id
    /\ Cardinality(customers) = 1

----------------------------------------------------------------------------
(* C20 *)

\* The invocation created a customer and the update that stores its id in
\* the profile failed.
PersistenceFailed(paths) ==
    /\ Done
    /\ TheRequest.fn \in paths
    /\ Logged(TheLog, "customers.create")
    /\ Logged(TheLog, "profiles.update:error")

\* the path of create-checkout-session alone: the session is created for the
\* new customer although its id was not stored
CheckoutProceedsUnstored ==
    PersistenceFailed({"create-checkout-session"}) =>
        \/ /\ TheResponse.status = 200
           /\ TheResponse.body.success = TRUE
           /\ sessions[Len(sessions)].customer \in customers
        \/ TheRequest.sessionError

\* C20: on both paths of the customer resolver (create-checkout-session and
\* create-stripe-customer), when the customer was created at the provider and
\* the write of its id to the profile fails, the invocation still answers
\* with success and not with an error.
C20_PersistenceFailureDoesNotAbort ==
    PersistenceFailed({"create-checkout-session", "create-stripe-customer"}) =>
        /\ TheResponse.status = 200
        /\ TheResponse.body.success = TRUE

----------------------------------------------------------------------------
(* C21 *)

\* the provider calls whose failure ends the invocation
EndingProviderFailures ==
    {"customers.create:throws", "sessions.create:throws",
     "sessions.retrieve:throws", "subscriptions.retrieve:throws",
     "billingPortal.sessions.create:throws"}

\* the fixed texts the three functions have for a failed provider call
GenericProviderErrors ==
    {"Failed to create Stripe customer", "Failed to create checkout session",
     "Failed to verify subscription status",
     "Failed to create customer portal session"}

\* C21: when a provider call fails in create-checkout-session,
\* create-portal-session or verify-subscription, the response is 500 with
\* success false and its error text is one of the functions' fixed texts,
\* whatever message the provider's error carries.
C21_NoProviderDetail ==
    ( Done
        /\ TheRequest.fn \in {"create-checkout-session", "create-portal-session",
                              "verify-subscription"}
        /\ \E i \in 1..Len(TheLog) : TheLog[i] \in EndingProviderFailures ) =>
        /\ Rejected(TheResponse, 500)
        /\ TheResponse.body.error \in GenericProviderErrors

----------------------------------------------------------------------------
(* C22 *)

\* a JSON body with a boolean success member
Envelope(response) ==
    /\ "success" \in DOMAIN response.body
    /\ response.body.success \in BOOLEAN

\* C22: every request to one of the five handlers is answered, whatever its
\* provider and database calls do: the invocation ends with exactly one
\* response, which carries an HTTP status, and every response to a request
\* other than OPTIONS is a JSON envelope with a boolean success member; no
\* invocation stays without a response.
C22_EveryRequestAnswered ==
    /\ [](Done =>
            /\ Len(resp) = 1
            /\ TheResponse.status \in {200, 400, 405, 500}
            /\ TheRequest.method # "OPTIONS" => Envelope(TheResponse))
    /\ (Pending ~> Done)

\* The signup resolver's thrown update error was turned into the envelope.
C22_Witness ==
    /\ Done
    /\ TheRequest.fn = "create-stripe-customer"
    /\ TheRequest.updateError
    /\ Logged(TheLog, "profiles.update:error")
    /\ TheResponse.status = 500
    /\ TheResponse.body.success = FALSE

----------------------------------------------------------------------------
(* C23 *)

\* C23: when the session verify-subscription retrieved passes the completion
\* check (payment_status 'paid' or status 'complete') and carries no
\* subscription, the response is 400 with success false, no subscription is
\* retrieved and no profile changes.
C23_NoSubscriptionRejected ==
    [][(Pending /\ VerifyPost(TheRequest)
                /\ ( TheRequest.stripe.payment_status = "paid"
                       \/ TheRequest.stripe.status = "complete" )
                /\ TheRequest.stripe.subscription = <<>>) =>
        /\ Rejected(resp'[1].response, 400)
        /\ resp'[1].log = <<"sessions.retrieve">>
        /\ profiles' = profiles
    ]_vars

\* A paid session of premium user u1 that is still open and has no
\* subscription has been answered 400.
C23_Witness ==
    /\ Done
    /\ VerifyPost(TheRequest)
    /\ TheRequest.userId = "u1"
    /\ TheRequest.stripe.payment_status = "paid"
    /\ TheRequest.stripe.status = "open"
    /\ TheRequest.stripe.subscription = <<>>
    /\ TheResponse.status = 400
    /\ profiles["u1"].subscription_status = "premium"

----------------------------------------------------------------------------
(* C24 *)

\* C24: in every state the webhook receiver and the verifier reach from the
\* signup rows, one after the other or at once, every profile's
\* subscription_status is free, premium, cancelled or expired, its
\* subscription_tier is free, premium or premium_plus, and a premium status
\* goes with the tier premium or premium_plus.
C24_StatusTierConsistent ==
    \A u \in Users :
        /\ profiles[u].subscription_status \in {"free", "premium", "cancelled", "expired"}
        /\ profiles[u].subscription_tier \in {"free", "premium", "premium_plus"}
        /\ profiles[u].subscription_status = "premium" =>
                profiles[u].subscription_tier \in {"premium", "premium_plus"}

\* In a pair in flight for u1 the verifier has written premium / premium for
\* the monthly price over a profile that was cancelled with the tier
\* premium_plus, and the webhook's update is still to come.
C24_Witness ==
    /\ flight # NoFlight
    /\ flight[1].user = "u1"
    /\ flight[1].v = "done"
    /\ flight[1].w = "parsed"
    /\ profiles["u1"].subscription_status = "premium"
    /\ profiles["u1"].subscription_tier = "premium"
    /\ profiles["u2"].subscription_status = "cancelled"
    /\ profiles["u2"].subscription_tier = "premium_plus"

----------------------------------------------------------------------------
(* C25 *)

\* C25: no step of any handler makes a subscription_status free that was not
\* free, nor a subscription_tier free that was not free: a status that has
\* left free and a tier that is premium or premium_plus never return to free.
C25_NoReturnToFree ==
    [][\A u \in Users :
        /\ profiles'[u].subscription_status = "free" =>
                profiles[u].subscription_status = "free"
        /\ profiles'[u].subscription_tier = "free" =>
                profiles[u].subscription_tier = "free"
    ]_vars

\* An EXPIRATION for u1 has been applied to a premium_plus profile: the
\* status is expired and the tier still premium_plus.
C25_Witness ==
    /\ Done
    /\ VerifiedEvent(TheRequest)
    /\ TheRequest.body.event.type = "EXPIRATION"
    /\ TheRequest.body.event.app_user_id = "u1"
    /\ TheResponse.status = 200
    /\ profiles["u1"].subscription_status = "expired"
    /\ profiles["u1"].subscription_tier = "premium_plus"
    /\ profiles["u1"].updated_at = ThisRequest

----------------------------------------------------------------------------
(* C26 *)

\* C26: a step of verify-subscription changes a profile only if it is the
\* profile of the request's userId and that userId is the one the session's
\* metadata recorded at checkout: a completed session of one user makes no
\* other user's profile premium.
C26_SessionOwnership ==
    [][Handles("verify-subscription") =>
        \A u \in Users :
            profiles'[u] # profiles[u] =>
                /\ u = req[1].userId
                /\ req[1].stripe.metadata.userId = u
    ]_vars

----------------------------------------------------------------------------
(* C27 *)

\* C27: when two invocations of the customer resolver for one user have run
\* at once, at most one customer was created at the provider for that user,
\* both invocations went on with the same customer id, and that id is the one
\* the profile stores.
C27_OneCustomerPerUser ==
    ResolversDone =>
        /\ Cardinality(customers) <= flight[1].before + 1
        /\ flight[1].i1.customer = flight[1].i2.customer
        /\ profiles[flight[1].user].revenuecat_user_id = flight[1].i1.customer

----------------------------------------------------------------------------
(* C28 *)

\* C28: no step of any of the five handlers adds or removes a profile row.
\* A verified event of a recognized type, and a verification of a completed
\* session with a subscription, that name a user id without a profile leave
\* every profile as it was and are answered 200 with success true.
C28_NoProfileCreatedOrDeleted ==
    [][ /\ DOMAIN profiles' = DOMAIN profiles
        /\ ( Handles("revenuecat-webhook") /\ VerifiedEvent(req[1])
               /\ req[1].body.event.type \in RecognizedTypes
               /\ req[1].body.event.app_user_id \notin DOMAIN profiles
               /\ ~req[1].dbError ) =>
                /\ profiles' = profiles
                /\ AckReceived(resp'[1].response)
        /\ ( Handles("verify-subscription") /\ CompletedWithSubscription(req[1])
               /\ req[1].userId \notin DOMAIN profiles
               /\ ~req[1].dbError ) =>
                /\ profiles' = profiles
                /\ resp'[1].response.status = 200
                /\ resp'[1].response.body.success = TRUE
    ]_vars

\* The purchase of a user without a profile has been acknowledged; the
\* profiles are the two there were.
C28_Witness ==
    /\ Done
    /\ VerifiedEvent(TheRequest)
    /\ TheRequest.body.event.type = "INITIAL_PURCHASE"
    /\ TheRequest.body.event.app_user_id = Ghost
    /\ Logged(TheLog, "profiles.update")
    /\ AckReceived(TheResponse)
    /\ DOMAIN profiles = Users
    /\ \A u \in Users : profiles[u].updated_at = Earlier

----------------------------------------------------------------------------
(* C29 *)

\* C29: a verified CANCELLATION, EXPIRATION or BILLING_ISSUE event changes, of
\* the addressed user's profile, nothing but subscription_status,
\* subscription_expires_at and updated_at: its subscription_tier and
\* revenuecat_user_id stay, and so does every field of every other profile.
C29_TerminationFrame ==
    [][( Handles("revenuecat-webhook") /\ VerifiedEvent(req[1])
           /\ req[1].body.event.type \in {"CANCELLATION", "EXPIRATION", "BILLING_ISSUE"} ) =>
        \A u \in Users :
            IF u = req[1].body.event.app_user_id
            THEN /\ profiles'[u].subscription_tier = profiles[u].subscription_tier
                 /\ profiles'[u].revenuecat_user_id = profiles[u].revenuecat_user_id
                 /\ DOMAIN profiles'[u] = DOMAIN profiles[u]
            ELSE profiles'[u] = profiles[u]
    ]_vars

\* A BILLING_ISSUE with a date has been applied to u2, who had bought the
\* yearly product: status and expiry are the event's, tier and identifier
\* those of the purchase.
C29_Witness ==
    /\ Done
    /\ VerifiedEvent(TheRequest)
    /\ TheRequest.body.event.type = "BILLING_ISSUE"
    /\ TheRequest.body.event.app_user_id = "u2"
    /\ TheRequest.body.event.expires_date = DateStr("offset", At(1))
    /\ profiles["u2"].subscription_status = "expired"
    /\ profiles["u2"].subscription_expires_at = At(1)
    /\ profiles["u2"].updated_at = ThisRequest
    /\ profiles["u2"].subscription_tier = "premium_plus"
    /\ profiles["u2"].revenuecat_user_id = "u2"
    /\ profiles["u1"].subscription_status = "premium"

----------------------------------------------------------------------------
(* C30 *)

\* The call in flight has returned.
HookReturned == flight # NoFlight /\ flight[1].pc = "returned"

\* invoke was called once while isLoading was true, isLoading is false again,
\* and a call that failed (transport error, a status that is not 2xx,
\* success false) gave null or false with the error set.
CalledOnceUnderLoading(h) ==
    /\ h.calls = 1
    /\ h.loadingAtInvoke
    /\ ~h.isLoading
    /\ ( \/ ~h.answer[1].delivered
         \/ h.answer[1].response[1].status # 200
         \/ ~h.answer[1].response[1].body.success ) =>
            /\ h.result[1] = HookFailed(h.fn)
            /\ h.error # Null
    /\ h.result[1].kind = "url" =>
            /\ h.answer[1].delivered
            /\ h.answer[1].response[1].body.success
            /\ h.result[1].url = h.answer[1].response[1].body.url

\* nothing was invoked, the error is set, the value is null or false
RefusedWithoutCall(h) ==
    /\ h.calls = 0
    /\ h.answer = <<>>
    /\ ~h.isLoading
    /\ h.error # Null
    /\ h.result[1] = HookFailed(h.fn)

\* The statement with the user as the only guard: with nobody logged in
\* nothing is invoked and the error is set; otherwise invoke is called once
\* under isLoading.
C30_HookGuardedByUserOnly ==
    HookReturned =>
        IF flight[1].user = <<>>
        THEN RefusedWithoutCall(flight[1])
        ELSE CalledOnceUnderLoading(flight[1])

\* C30: for each function of the hook: with nobody logged in, and for
\* createCheckoutSession with a falsy priceId, the edge function is not
\* invoked and the error is set; otherwise isLoading is true at the one
\* invoke call and false once the function has returned, and a failed call
\* gives null or false with the error set, never a URL or true.  isLoading is
\* true all the while the call is out.
C30_HookGuarded ==
    /\ HookReturned =>
        IF \/ flight[1].user = <<>>
           \/ flight[1].fn = "createCheckoutSession" /\ flight[1].arg = Null
        THEN RefusedWithoutCall(flight[1])
        ELSE CalledOnceUnderLoading(flight[1])
    /\ (flight # NoFlight /\ flight[1].pc \in {"invoked", "resolved"}) =>
            flight[1].isLoading /\ flight[1].calls = 1
    /\ (flight # NoFlight /\ flight[1].pc \in {"called", "loading"}) =>
            flight[1].calls = 0 /\ req = <<>>

\* handleSubscriptionSuccess got 200 with success false for a payment that
\* is not completed: it returned false with the error set and isLoading false.
C30_Witness ==
    /\ HookReturned
    /\ flight[1].fn = "handleSubscriptionSuccess"
    /\ flight[1].user # <<>>
    /\ flight[1].calls = 1
    /\ flight[1].answer[1].delivered
    /\ flight[1].answer[1].response[1].status = 200
    /\ ~flight[1].answer[1].response[1].body.success
    /\ flight[1].result = <<HookFailed("handleSubscriptionSuccess")>>
    /\ flight[1].error = "friendly:UNKNOWN_ERROR"
    /\ ~flight[1].isLoading

=============================================================================
